---- MODULE Spec2Model ----
(***************************************************************************)
(* A model of the QElectroTech terminal-block generator:                   *)
(*   src/src/qetproject.py    class QETProject   (parse, extract, update,  *)
(*                                                insert, save)            *)
(*   src/src/terminalblock.py class TerminalBlock (layout generator)       *)
(*                                                                         *)
(* Python strings are sequences of one-character strings, so that the      *)
(* regular expressions, str.split, str.replace and the string ordering of  *)
(* list.sort are computed character by character, as the code does.        *)
(***************************************************************************)
EXTENDS Integers, Sequences, FiniteSets, TLC

VARIABLES
    pc,         \* where the calling script is: "file", "open", "failed", ...
    disk,       \* the project file on disk (the XML document)
    qet,        \* QETProject.qet_project: the parsed tree held in memory
    terminals,  \* QETProject.__used_terminals
    err,        \* the exception that ended the last call ("" when none)
    tb,         \* the TerminalBlock instance
    drawn,      \* the trees returned by the calls of drawTerminalBlock
    clock,      \* the state uuid.uuid1() reads
    probe       \* the arguments of the last call, and a helper's result

vars == <<pc, disk, qet, terminals, err, tb, drawn, clock, probe>>

-----------------------------------------------------------------------------
(* Python values                                                           *)

\* The characters used, in code point order (Python compares str by code point).
AsciiOrder ==
    << " ", "%", "-", ".", "/", "0", "1", "2", "3", "4", "5", "6", "7", "8",
       "9", ":", "A", "B", "C", "D", "E", "F", "G", "H", "I", "J", "K", "L",
       "M", "N", "O", "P", "Q", "R", "S", "T", "U", "V", "W", "X", "Y", "Z",
       "_", "a", "b", "c", "d", "e", "f", "h", "i", "l",
       "m", "n", "o", "p", "r", "s", "t", "u", "x" >>

Ord(c) == CHOOSE i \in 1..Len(AsciiOrder) : AsciiOrder[i] = c

Digits == <<"0", "1", "2", "3", "4", "5", "6", "7", "8", "9">>

IsDigit(c) == \E i \in 1..10 : Digits[i] = c

Min(S) == CHOOSE x \in S : \A y \in S : x <= y

\* s < t for two str, as Python orders them.
StrLess(s, t) ==
    \E k \in 1..(Len(t)) :
        /\ \A i \in 1..(k - 1) : i <= Len(s) /\ s[i] = t[i]
        /\ \/ k = Len(s) + 1
           \/ k <= Len(s) /\ Ord(s[k]) < Ord(t[k])

\* str(n) for an int n
RECURSIVE IntToStr(_)
IntToStr(n) ==
    IF n < 0 THEN <<"-">> \o IntToStr(-n)
    ELSE IF n < 10 THEN <<Digits[n + 1]>>
    ELSE IntToStr(n \div 10) \o <<Digits[(n % 10) + 1]>>

\* int(a / b) for b > 0: the quotient cut towards zero
TruncDiv(a, b) == IF a >= 0 THEN a \div b ELSE -((-a) \div b)

\* A value whose Python type matters: a str, an int or a bool.
PyStr(s) == [t |-> "str", s |-> s, n |-> 0]
PyInt(n) == [t |-> "int", s |-> IntToStr(n), n |-> n]
PyBool(b) ==
    [t |-> "bool",
     s |-> IF b THEN <<"T", "r", "u", "e">> ELSE <<"F", "a", "l", "s", "e">>,
     n |-> IF b THEN 1 ELSE 0]

\* '{}'.format(v): the text of v
Format(v) == v.s

\* bool(v): the truth value an `if v:` tests
Truthy(v) == IF v.t = "str" THEN v.s # <<>> ELSE v.n # 0

\* s.strip(), for the blank character
RECURSIVE LStrip(_)
LStrip(s) == IF s # <<>> /\ s[1] = " " THEN LStrip(Tail(s)) ELSE s

RECURSIVE RStrip(_)
RStrip(s) ==
    IF s # <<>> /\ s[Len(s)] = " " THEN RStrip(SubSeq(s, 1, Len(s) - 1)) ELSE s

Strip(s) == RStrip(LStrip(s))

\* s.split(sep)[k], k counted from 0, for a one-character sep
SepsAt(s, sep) == {i \in 1..Len(s) : s[i] = sep}

RECURSIVE SplitPart(_, _, _)
SplitPart(s, sep, k) ==
    LET cut == IF SepsAt(s, sep) = {} THEN Len(s) + 1 ELSE Min(SepsAt(s, sep))
    IN  IF k = 0 THEN SubSeq(s, 1, cut - 1)
        ELSE SplitPart(SubSeq(s, cut + 1, Len(s)), sep, k - 1)

\* s.replace(pat, rep): every occurrence, left to right, not overlapping
RECURSIVE Replace(_, _, _)
Replace(s, pat, rep) ==
    IF Len(s) < Len(pat) \/ pat = <<>> THEN s
    ELSE IF SubSeq(s, 1, Len(pat)) = pat
         THEN rep \o Replace(SubSeq(s, Len(pat) + 1, Len(s)), pat, rep)
         ELSE <<s[1]>> \o Replace(Tail(s), pat, rep)

\* pat in s
Contains(s, pat) ==
    \E i \in 1..(Len(s) - Len(pat) + 1) : SubSeq(s, i, i + Len(pat) - 1) = pat

\* the str under `key` of a record; terminal_pos is a Python value
KeyOf(rec, key) ==
    IF key = "terminal_pos" THEN rec.terminal_pos.s ELSE rec.block_name

\* x sorts before y: its key is smaller, or greater under reverse=True
SortsBefore(x, y, key, reverse) ==
    IF reverse THEN StrLess(KeyOf(y, key), KeyOf(x, key))
    ELSE StrLess(KeyOf(x, key), KeyOf(y, key))

\* list.sort is stable: each element goes after every element already placed
\* that does not sort after it, so equal keys keep their order (under
\* reverse=True as well).
InsertByKey(s, x, key, reverse) ==
    LET later == {i \in 1..Len(s) : SortsBefore(x, s[i], key, reverse)}
        at == IF later = {} THEN Len(s) + 1 ELSE Min(later)
    IN  SubSeq(s, 1, at - 1) \o <<x>> \o SubSeq(s, at, Len(s))

\* s.sort(key=operator.itemgetter(key), reverse=reverse)
SortByKey(s, key, reverse) ==
    LET ins[k \in 0..Len(s)] ==
            IF k = 0 THEN <<>> ELSE InsertByKey(ins[k - 1], s[k], key, reverse)
    IN  ins[Len(s)]

-----------------------------------------------------------------------------
(* The XML document                                                        *)
(*                                                                         *)
(* project    [format, offset, diagrams, collection, prefixes, xmlns,      *)
(*             tags]                                                       *)
(*   format      newdiagrams/report/@label, the xref format                *)
(*   offset      @folioSheetQuantity as <<n>>, or <<>> when absent         *)
(*   diagrams    the <diagram> children, in document order                 *)
(*   collection  the children of the first <category> of <collection>      *)
(*   prefixes    the words of the file's text that stand before a ':' and  *)
(*               after a blank or '<', in text order                       *)
(*   xmlns       the xmlns:prefix="uri" of the first tag, as records       *)
(*               [prefix, uri]                                             *)
(*   tags        the indices of `prefixes` at which the word is the prefix *)
(*               of the name of a tag, as in <dc:title>; the other words   *)
(*               stand in a text or in the value of an attribute           *)
(* diagram    [order, folio, attrs, cols, colsize, rows, rowsize,          *)
(*             elements, conductors]                                       *)
(* element    [uuid, label, formula, type, func, x, y, tids]               *)
(*   type        @type as <<s>>, or <<>> when the attribute is absent      *)
(*   func        the text of the 'function' elementInformation as <<s>>,   *)
(*               or <<>> when there is none; ElementTree gives None for an *)
(*               empty text, so <<<<>>>> is a text of None                 *)
(*   tids        the @id of the <terminal> children                        *)
(* conductor  [terminal1, terminal2, num]                                  *)
(* collection node: [kind |-> "element", name, link_type, sub |-> <<>>,     *)
(*               id] or [kind |-> "category", name, link_type |-> <<>>,    *)
(*               sub, id] with sub the elements of a nested category; id   *)
(*               tells apart two nodes of equal content (0: from the file) *)

QET_COL_ROW_SIZE == 25

QET_BLOCK_TERMINAL_SIZE == 30

\* re.search(r'%<tag>...'): the places where "%<tag>" starts
TagStarts(meta, tag) ==
    {i \in 1..(Len(meta) - 1) : meta[i] = "%" /\ meta[i + 1] = tag}

\* c is of the class \d ("d") or [^%] (any other class)
InClass(c, class) == IF class = "d" THEN IsDigit(c) ELSE c # "%"

\* the end (exclusive) of the longest run of characters of the class from
\* `from` on: what a greedy [^%]* or \d+ consumes
RunEnd(meta, from, class) ==
    CHOOSE j \in from..(Len(meta) + 1) :
        /\ \A k \in from..(j - 1) : InClass(meta[k], class)
        /\ j = Len(meta) + 1 \/ ~InClass(meta[j], class)

NoMatch == [found |-> FALSE, g |-> <<>>]

\* re.search(r'%<tag>([^%]*)(%|$)', meta): group(1) of the leftmost match.
\* [^%]* stops at a "%" or at the end, so the leftmost "%<tag>" matches.
SearchText(meta, tag) ==
    IF TagStarts(meta, tag) = {} THEN NoMatch
    ELSE LET i == Min(TagStarts(meta, tag))
         IN  [found |-> TRUE,
              g |-> SubSeq(meta, i + 2, RunEnd(meta, i + 2, "n") - 1)]

\* re.search(r'%<tag>(\d+)(%|$)', meta): the leftmost "%<tag>" followed by one
\* digit or more and then a "%" or the end.
SearchDigits(meta, tag) ==
    LET ok == {i \in TagStarts(meta, tag) :
                  LET j == RunEnd(meta, i + 2, "d")
                  IN  j > i + 2 /\ (j = Len(meta) + 1 \/ meta[j] = "%")}
    IN  IF ok = {} THEN NoMatch
        ELSE [found |-> TRUE,
              g |-> SubSeq(meta, Min(ok) + 2,
                           RunEnd(meta, Min(ok) + 2, "d") - 1)]

STANDARD == <<"S", "T", "A", "N", "D", "A", "R", "D">>

\* _getElementMetadata: meta is '' when the element has no 'function' entry
MetaString(element) == IF element.func = <<>> THEN <<>> ELSE element.func[1]

\* re.search(pattern, None) raises TypeError: the 'function' entry is empty
MetadataRaises(element) == element.func = << <<>> >>

GetElementMetadata(element) ==
    LET meta == MetaString(element)
        p == SearchDigits(meta, "p")
        t == SearchText(meta, "t")
        h == SearchText(meta, "h")
        n == SearchText(meta, "n")
        b == SearchText(meta, "b")
        r == SearchDigits(meta, "r")
        z == SearchText(meta, "z")
        s == SearchDigits(meta, "s")
    IN  [terminal_pos |-> IF p.found THEN p.g ELSE <<>>,
         terminal_type |-> IF t.g # <<>> THEN t.g ELSE STANDARD,
         hose |-> IF h.found THEN h.g ELSE <<>>,
         conductor |-> IF n.found THEN n.g ELSE <<>>,
         bridge |-> IF b.found THEN b.g ELSE <<>>,
         num_reserve |-> IF r.g # <<>> THEN PyStr(r.g) ELSE PyInt(0),
         reserve_positions |-> IF z.found THEN z.g ELSE <<>>,
         size |-> IF s.g # <<>> THEN PyStr(s.g)
                  ELSE PyInt(QET_BLOCK_TERMINAL_SIZE)]

\* _getElementName, for an element without dynamic_texts: the label, or the
\* formula when the label is empty
GetElementName(element) ==
    IF element.label = <<>> THEN element.formula ELSE element.label

\* the elements of the collection, nested ones included, in document order
RECURSIVE IterElements(_)
IterElements(nodes) ==
    IF nodes = <<>> THEN <<>>
    ELSE (IF nodes[1].kind = "element" THEN <<nodes[1]>> ELSE nodes[1].sub)
         \o IterElements(Tail(nodes))

\* _getListOfElementsByType: the names of the collection elements whose
\* definition has that link_type (list(set(ret)): a set)
GetListOfElementsByType(project, element_type) ==
    LET all == IterElements(project.collection)
    IN  {all[i].name : i \in {j \in 1..Len(all) :
                                 all[j].link_type = <<element_type>>}}

\* re.search(r'^(.+):(.+)$', name)
LikeBlockAndName(name) == \E i \in 2..(Len(name) - 1) : name[i] = ":"

\* re.search(el + '$', type): el is read as a pattern, in which "." stands for
\* any character, and has to match at the end of type
MatchesAtEnd(el, type) ==
    /\ Len(el) <= Len(type)
    /\ \A i \in 1..Len(el) :
           el[i] = "." \/ el[i] = type[Len(type) - Len(el) + i]

IsValidTerminal(element, terminalElements) ==
    /\ LikeBlockAndName(Strip(GetElementName(element)))
    /\ element.type # <<>>
    /\ \E el \in terminalElements : MatchesAtEnd(el, element.type[1])

-----------------------------------------------------------------------------
(* Cross references and cable numbers                                      *)

\* chr(x + 65) for x in range(26)
Letters ==
    << "A", "B", "C", "D", "E", "F", "G", "H", "I", "J", "K", "L", "M", "N",
       "O", "P", "Q", "R", "S", "T", "U", "V", "W", "X", "Y", "Z" >>

\* the index into rows_letters: int((y - 25) / row_size) - 1 + 1
RowIndex(diagram, y) ==
    TruncDiv(y - QET_COL_ROW_SIZE, diagram.rowsize) - 1 + 1

\* the column without the `+ 1` of line 332
ColumnNoFromZero(diagram, x) ==
    TruncDiv(x - QET_COL_ROW_SIZE, diagram.colsize)

\* int((x - 25) / col_size) + 1
ColumnNo(diagram, x) == TruncDiv(x - QET_COL_ROW_SIZE, diagram.colsize) + 1

\* rows_letters[i] raises IndexError outside -rows .. rows-1
XRefByCoordRaises(diagram, x, y) ==
    \/ RowIndex(diagram, y) >= diagram.rows
    \/ RowIndex(diagram, y) < -diagram.rows

\* _getXRefByCoord: (row_letter, column); a negative index counts from the end
GetXRefByCoord(diagram, x, y) ==
    LET i == RowIndex(diagram, y)
    IN  [row |-> Letters[(IF i < 0 THEN diagram.rows + i ELSE i) + 1],
         col |-> IntToStr(ColumnNo(diagram, x))]

\* _getDiagramAttribute: `sAttrib in diagram` looks for sAttrib among the
\* children of the diagram node, which are nodes and never equal a str
GetDiagramAttribute(diagram, sAttrib) ==
    IF sAttrib \in {} THEN diagram.attrs[sAttrib] ELSE <<>>

\* _getXRef: the format with its tags replaced, in the code's order
GetXRef(project, diagram, element) ==
    LET rc == GetXRefByCoord(diagram, element.x, element.y)
        pageOffset == IF project.offset = <<>> THEN 0 ELSE project.offset[1]
        totalPages == Len(project.diagrams) + pageOffset
        diagram_page == IntToStr(diagram.order + pageOffset)
        f1 == Replace(diagram.folio, <<"%", "i", "d">>, diagram_page)
        f2 == Replace(f1, <<"%", "t", "o", "t", "a", "l">>, IntToStr(totalPages))
        folio_label ==
            Replace(f2, <<"%", "a", "u", "t", "o", "n", "u", "m">>, diagram_page)
        r1 == Replace(project.format, <<"%", "f">>, diagram_page)
        r2 == Replace(r1, <<"%", "F">>, folio_label)
        r3 == Replace(r2, <<"%", "M">>, GetDiagramAttribute(diagram, "machine"))
        r4 == Replace(r3, <<"%", "L", "M">>,
                      GetDiagramAttribute(diagram, "locmach"))
        r5 == Replace(r4, <<"%", "l">>, <<rc.row>>)
    IN  Replace(r5, <<"%", "c">>, rc.col)

\* _getCableNum: the num of the last conductor of the page that has the
\* terminal id in one of its terminal* attributes
GetCableNum(diagram, terminalId) ==
    LET hits == {i \in 1..Len(diagram.conductors) :
                    \/ diagram.conductors[i].terminal1 = terminalId
                    \/ diagram.conductors[i].terminal2 = terminalId}
    IN  IF hits = {} THEN <<>>
        ELSE diagram.conductors[CHOOSE i \in hits : \A j \in hits : j <= i].num

-----------------------------------------------------------------------------
(* _set_used_terminals                                                     *)

\* the record of one valid terminal element (lines 357-380); terminal_pos is
\* still a str here
TerminalRecord(project, diagram, element) ==
    LET terminalName == Strip(GetElementName(element))
        meta_data == GetElementMetadata(element)
        cableNum == GetCableNum(diagram, element.tids[1])
        cableNum2 == GetCableNum(diagram, element.tids[2])
        terminal_name == SplitPart(terminalName, ":", 1)
    IN  [uuid |-> element.uuid,
         block_name |-> SplitPart(terminalName, ":", 0),
         terminal_name |-> terminal_name,
         terminal_xref |-> GetXRef(project, diagram, element),
         cable |-> IF cableNum = <<>> THEN cableNum2 ELSE cableNum,
         terminal_pos |-> PyStr(IF meta_data.terminal_pos = <<>>
                                THEN terminal_name
                                ELSE meta_data.terminal_pos),
         terminal_type |-> meta_data.terminal_type,
         hose |-> meta_data.hose,
         conductor |-> meta_data.conductor,
         bridge |-> PyStr(meta_data.bridge),
         num_reserve |-> meta_data.num_reserve,
         reserve_positions |-> meta_data.reserve_positions,
         size |-> meta_data.size]

\* the exception a valid terminal element raises while its record is built,
\* "" when it raises none
RecordError(diagram, element) ==
    IF MetadataRaises(element) THEN "TypeError"
    ELSE IF Len(element.tids) < 2 THEN "IndexError"
    ELSE IF XRefByCoordRaises(diagram, element.x, element.y) THEN "IndexError"
    ELSE ""

\* the valid terminal elements as <<diagram index, element index>>, in the
\* order the two loops visit them (lines 351-355)
RECURSIVE ValidOfDiagram(_, _, _, _)
ValidOfDiagram(project, terminalElements, d, k) ==
    IF k > Len(project.diagrams[d].elements) THEN <<>>
    ELSE (IF IsValidTerminal(project.diagrams[d].elements[k], terminalElements)
          THEN << <<d, k>> >> ELSE <<>>)
         \o ValidOfDiagram(project, terminalElements, d, k + 1)

RECURSIVE ValidFrom(_, _, _)
ValidFrom(project, terminalElements, d) ==
    IF d > Len(project.diagrams) THEN <<>>
    ELSE ValidOfDiagram(project, terminalElements, d, 1)
         \o ValidFrom(project, terminalElements, d + 1)

TERMINAL == <<"t", "e", "r", "m", "i", "n", "a", "l">>

ValidTerminals(project) ==
    ValidFrom(project, GetListOfElementsByType(project, TERMINAL), 1)

\* the exception of the first element that raises, "" when none does
ExtractError(project) ==
    LET v == ValidTerminals(project)
        bad == {i \in 1..Len(v) :
                   RecordError(project.diagrams[v[i][1]],
                               project.diagrams[v[i][1]].elements[v[i][2]]) # ""}
    IN  IF bad = {} THEN ""
        ELSE RecordError(project.diagrams[v[Min(bad)][1]],
                         project.diagrams[v[Min(bad)][1]].elements[v[Min(bad)][2]])

\* ret before it is sorted (lines 348-381)
CollectTerminals(project) ==
    LET v == ValidTerminals(project)
    IN  [i \in 1..Len(v) |->
            TerminalRecord(project, project.diagrams[v[i][1]],
                           project.diagrams[v[i][1]].elements[v[i][2]])]

\* ret.sort(key=operator.itemgetter('terminal_pos')), the keys being str, then
\* ret.sort(key=operator.itemgetter('block_name'), reverse=True)
SortTerminals(ret) ==
    SortByKey(SortByKey(ret, "terminal_pos", FALSE), "block_name", TRUE)

\* the renumbering loop without `if t['block_name'] != memo_tb: i=1`
RenumPosNoReset(ret, k, memo_i) == memo_i

\* the position the renumbering loop gives the k-th record (lines 388-394);
\* memo_i is i as the record before left it
RenumPos(ret, k, memo_i) ==
    IF ret[k].block_name # (IF k = 1 THEN <<>> ELSE ret[k - 1].block_name)
    THEN 1 ELSE memo_i

Renumber(ret) ==
    LET i[k \in 0..Len(ret)] ==
            IF k = 0 THEN 1 ELSE RenumPos(ret, k, i[k - 1]) + 1
    IN  [k \in 1..Len(ret) |->
            [ret[k] EXCEPT !.terminal_pos = PyInt(RenumPos(ret, k, i[k - 1]))]]

SetUsedTerminals(project) == Renumber(SortTerminals(CollectTerminals(project)))

-----------------------------------------------------------------------------
(* QETProject.__init__                                                     *)

NoProject == [format |-> <<>>, offset |-> <<>>, diagrams |-> <<>>,
              collection |-> <<>>, prefixes |-> <<>>, xmlns |-> {}, tags |-> {}]

NoTB == [ok |-> FALSE]

NoProbe == [op |-> "none"]

\* s.startswith(p)
StartsWith(s, p) == Len(s) >= Len(p) /\ SubSeq(s, 1, Len(p)) = p

\* every word of the text that stands before a ':' and after a blank or '<'
NamespacePrefixesUnfiltered(doc) ==
    {doc.prefixes[i] : i \in 1..Len(doc.prefixes)}

\* lines 74-77: the words of the text that stand before a ':' and after a
\* blank or '<' (doc.prefixes), without duplicates, those kept that start with
\* ns, dc or rdf
NamespacePrefixes(doc) ==
    {doc.prefixes[i] :
        i \in {k \in 1..Len(doc.prefixes) :
                  \/ StartsWith(doc.prefixes[k], <<"n", "s">>)
                  \/ StartsWith(doc.prefixes[k], <<"d", "c">>)
                  \/ StartsWith(doc.prefixes[k], <<"r", "d", "f">>)}}

\* lines 79-83: the prefixes n for which the text has no xmlns:n="n"
NamespacesToDefine(doc) ==
    {n \in NamespacePrefixes(doc) : [prefix |-> n, uri |-> n] \notin doc.xmlns}

\* lines 84-87: the definitions are put into the first tag and the file is
\* written; a file with nothing to define is not written
DefineNamespaces(doc) ==
    [doc EXCEPT !.xmlns =
        @ \cup {[prefix |-> n, uri |-> n] : n \in NamespacesToDefine(doc)}]

\* etree.parse raises ParseError on a first tag that defines a prefix twice
\* (duplicate attribute) and on a tag whose prefix is not defined (unbound
\* prefix)
ParseRaises(doc) ==
    \/ \E a \in doc.xmlns, b \in doc.xmlns : a.prefix = b.prefix /\ a # b
    \/ \E i \in doc.tags : \A d \in doc.xmlns : d.prefix # doc.prefixes[i]

\* QETProject(project_file): defines the missing namespaces in the file,
\* parses it and extracts the terminals.  An exception leaves the caller
\* without a project object.
Construct ==
    /\ pc \in {"file", "saved"}
    /\ disk' = DefineNamespaces(disk)
    /\ IF ParseRaises(DefineNamespaces(disk))
       THEN /\ qet' = NoProject
            /\ err' = "ParseError"
            /\ terminals' = <<>>
            /\ pc' = "failed"
       ELSE /\ qet' = DefineNamespaces(disk)
            /\ err' = ExtractError(disk)
            /\ IF ExtractError(disk) = ""
               THEN /\ terminals' = SetUsedTerminals(disk)
                    /\ pc' = IF pc = "file" THEN "open" ELSE "reopened"
               ELSE /\ terminals' = <<>>
                    /\ pc' = "failed"
    /\ UNCHANGED <<tb, drawn, clock, probe>>

-----------------------------------------------------------------------------
(* Extraction: the projects the extraction is checked on                   *)

\* the largest number of elements drawn on the pages of a project
MaxElements == 3

SeqsUpTo(S, n) == UNION {[1..k -> S] : k \in 0..n}

El(uuid, label, type, func) ==
    [uuid |-> uuid, label |-> label, formula |-> <<>>, type |-> type,
     func |-> func, x |-> 100, y |-> 100, tids |-> <<uuid, 0>>]

CollElement(name, link_type) ==
    [kind |-> "element", name |-> name, link_type |-> link_type, sub |-> <<>>,
     id |-> 0]

Category(name, sub) ==
    [kind |-> "category", name |-> name, link_type |-> <<>>, sub |-> sub,
     id |-> 0]

\* a page with the grid QElectroTech gives a new folio
Page(order, elements, conductors) ==
    [order |-> order, folio |-> <<"%", "i", "d">>,
     attrs |-> [machine |-> <<"M">>, locmach |-> <<"L">>],
     cols |-> 17, colsize |-> 60, rows |-> 8, rowsize |-> 80,
     elements |-> elements, conductors |-> conductors]

\* "a" is a terminal element of the collection, "ba" and "c" are not
ExtractCollection ==
    << CollElement(<<"a">>, <<TERMINAL>>),
       CollElement(<<"b", "a">>, << <<"s", "i", "m", "p", "l", "e">> >>),
       CollElement(<<"c">>, <<>>) >>

TypeA == << <<"x", "/", "a">> >>

ExtractElements ==
    { El(1, <<"X", "1", ":", "1">>, TypeA, << <<"%", "p", "2", "%">> >>),
      El(2, <<"X", "1", ":", "2">>, TypeA, << <<"%", "p", "1", "0", "%">> >>),
      El(3, <<"X", "2", ":", "1">>, TypeA, <<>>),
      El(1, <<"X", "2", ":", "2">>, TypeA, << <<"%", "p", "1", "%">> >>),
      El(4, <<"X", "1", ":", "3">>, << <<"x", "/", "b", "a">> >>, <<>>),
      El(5, <<"X", "1", ":">>, TypeA, <<>>),
      El(6, <<"X", "1", ":", "4">>, << <<"x", "/", "c">> >>, <<>>),
      El(7, <<"X", "1", ":", "5">>, <<>>, <<>>),
      El(8, <<" ", "X", "2", ":", "3", " ">>, TypeA,
         << <<"%", "p", "3", "%", "t", "F", "U", "S", "E", "%">> >>),
      El(9, <<"X", "1", ":", "6">>, TypeA, << <<>> >>) }

\* a project file of one or two pages
InitExtract ==
    /\ pc = "file"
    /\ \E els \in SeqsUpTo(ExtractElements, MaxElements) :
       \E k \in 0..Len(els) :
           disk = [format |-> <<"%", "f", "-", "%", "l", "%", "c">>,
                   offset |-> <<>>,
                   diagrams |->
                       IF k = Len(els) THEN << Page(1, els, <<>>) >>
                       ELSE << Page(1, SubSeq(els, 1, k), <<>>),
                               Page(2, SubSeq(els, k + 1, Len(els)),
                                    << [terminal1 |-> 0, terminal2 |-> 3,
                                        num |-> <<"7">>] >>) >>,
                   collection |-> ExtractCollection,
                   prefixes |-> <<>>, xmlns |-> {}, tags |-> {}]
    /\ qet = NoProject
    /\ terminals = <<>>
    /\ err = ""
    /\ tb = NoTB
    /\ drawn = <<>>
    /\ clock = 0
    /\ probe = NoProbe

NextExtract == Construct

SpecExtract == InitExtract /\ [][NextExtract]_vars

-----------------------------------------------------------------------------
(* Claims about the extracted table                                        *)

\* the elements of all the pages of the parsed project
AllElements ==
    UNION {{qet.diagrams[d].elements[k] :
               k \in 1..Len(qet.diagrams[d].elements)} :
           d \in 1..Len(qet.diagrams)}

UniqueElementUuids ==
    \A e1 \in AllElements : \A e2 \in AllElements :
        e1.uuid = e2.uuid => e1 = e2

\* the element a record was made from, when uuids are unique in the pages
SourceOf(rec) == CHOOSE e \in AllElements : e.uuid = rec.uuid

\* int(s) for a str of digits
RECURSIVE StrToInt(_)
StrToInt(s) ==
    IF s = <<>> THEN 0
    ELSE 10 * StrToInt(SubSeq(s, 1, Len(s) - 1))
         + (CHOOSE d \in 0..9 : Digits[d + 1] = s[Len(s)])

HasNumericPos(e) == SearchDigits(MetaString(e), "p").found

NumericPos(e) == StrToInt(SearchDigits(MetaString(e), "p").g)

SameBlock(i, j) == terminals[i].block_name = terminals[j].block_name

BlocksContiguous ==
    \A i \in 1..Len(terminals) : \A j \in i..Len(terminals) :
        SameBlock(i, j) => \A k \in i..j : SameBlock(i, k)

BlocksDescending ==
    \A i \in 1..Len(terminals) : \A j \in i..Len(terminals) :
        \/ SameBlock(i, j)
        \/ StrLess(terminals[j].block_name, terminals[i].block_name)

\* every terminal of the block of terminals[i] carries a numeric %p
BlockAllNumeric(i) ==
    \A k \in 1..Len(terminals) :
        SameBlock(i, k) => HasNumericPos(SourceOf(terminals[k]))

PositionsAscending ==
    \A i \in 1..Len(terminals) : \A j \in i..Len(terminals) :
        SameBlock(i, j) /\ BlockAllNumeric(i)
            => NumericPos(SourceOf(terminals[i]))
                   <= NumericPos(SourceOf(terminals[j]))

\* C1: after construction `terminals` is sorted by block name and position:
\* the records of a block are contiguous, the blocks come in descending order of
\* their names, and inside a block whose terminals all carry a numeric %p the
\* records come in ascending numeric order of it (2 before 10).
C1_SortedByBlockAndPosition ==
    pc = "open" /\ UniqueElementUuids
        => BlocksContiguous /\ BlocksDescending /\ PositionsAscending

\* the part of C1 the code keeps: blocks contiguous and in descending order
C1_BlocksGrouped == pc = "open" => BlocksContiguous /\ BlocksDescending

\* how many records of the block of terminals[i] stand at or before i
RankInBlock(i) == Cardinality({j \in 1..i : SameBlock(i, j)})

\* C2: after construction the terminal_pos values of each block, read in list
\* order, are the consecutive integers 1, 2, ..., k, without gap or repeat.
C2_PositionsConsecutive ==
    pc = "open" =>
        \A i \in 1..Len(terminals) :
            terminals[i].terminal_pos = PyInt(RankInBlock(i))

\* a table of two blocks, the second one listed holding two terminals
C2_Witness ==
    /\ pc = "open"
    /\ Len(terminals) = 3
    /\ ~SameBlock(1, 2)
    /\ SameBlock(2, 3)
    /\ terminals[3].terminal_pos = PyInt(2)

\* C3: no two records of `terminals` have the same uuid, for any project
\* (duplicates found in the diagrams are removed).
C3_UniqueUuids ==
    pc = "open" =>
        \A i \in 1..Len(terminals) : \A j \in 1..Len(terminals) :
            terminals[i].uuid = terminals[j].uuid => i = j

\* the last component of a path such as embed://import/a.elmt
RECURSIVE LastComponent(_)
LastComponent(path) ==
    IF SepsAt(path, "/") = {} THEN path
    ELSE LastComponent(SubSeq(path, Min(SepsAt(path, "/")) + 1, Len(path)))

\* the element's type names a collection element whose definition has
\* link_type 'terminal'
RefersToTerminalElement(e) ==
    /\ e.type # <<>>
    /\ \E i \in 1..Len(IterElements(qet.collection)) :
           /\ IterElements(qet.collection)[i].name = LastComponent(e.type[1])
           /\ IterElements(qet.collection)[i].link_type = <<TERMINAL>>

\* a label <block>:<name> with both parts non-empty
BlockColonName(label) ==
    \E i \in 1..Len(label) :
        label[i] = ":" /\ i > 1 /\ i < Len(label)

Extracted(e) == \E i \in 1..Len(terminals) : terminals[i].uuid = e.uuid

\* C4: a diagram element is extracted as a terminal record if and only if its
\* label has the form <block>:<name> and its type refers to a collection element
\* of link_type 'terminal'; an element of a non-terminal type is never extracted.
C4_ExtractedIffTerminal ==
    pc = "open" /\ UniqueElementUuids =>
        \A e \in AllElements :
            Extracted(e) <=> /\ BlockColonName(Strip(GetElementName(e)))
                             /\ RefersToTerminalElement(e)

-----------------------------------------------------------------------------
(* update_terminals, save_tb                                               *)

\* r'%p{}%t{}%h{}%n{}%b{}%'.format(...) (lines 425-430)
FunctionValue(d) ==
    <<"%", "p">> \o Format(d.terminal_pos)
    \o <<"%", "t">> \o d.terminal_type
    \o <<"%", "h">> \o d.hose
    \o <<"%", "n">> \o d.conductor
    \o <<"%", "b">> \o Format(d.bridge)
    \o <<"%">>

\* the 'function' entry of an element gets the value of the first record of
\* data that has its uuid; an element without such a record is left alone
UpdateElement(data, element) ==
    LET dt == {i \in 1..Len(data) : data[i].uuid = element.uuid}
    IN  IF dt = {} THEN element
        ELSE [element EXCEPT !.func = << FunctionValue(data[Min(dt)]) >>]

UpdateDiagram(data, diagram) ==
    [diagram EXCEPT !.elements =
        [k \in 1..Len(diagram.elements) |->
            UpdateElement(data, diagram.elements[k])]]

UpdateProject(data, project) ==
    [project EXCEPT !.diagrams =
        [d \in 1..Len(project.diagrams) |->
            UpdateDiagram(data, project.diagrams[d])]]

\* what the user may enter in the plugin for one terminal
TypeChoices == {<<>>, <<"F", "U", "S", "E">>}

HoseChoices == {<<"H">>, <<"5", "%">>}

ConductorChoices == {<<"c">>}

BridgeChoices == {PyBool(TRUE), PyBool(FALSE)}

\* the table as the user edited it: the fields the plugin lets the user
\* change, changed or not
Edited(rec) ==
    {[rec EXCEPT !.terminal_type = t, !.hose = h, !.conductor = n,
                 !.bridge = b] :
        t \in TypeChoices \cup {rec.terminal_type},
        h \in HoseChoices \cup {rec.hose},
        n \in ConductorChoices \cup {rec.conductor},
        b \in BridgeChoices \cup {rec.bridge}}

EditedTables(table) ==
    {data \in [1..Len(table) -> UNION {Edited(table[i]) : i \in 1..Len(table)}] :
        \A i \in 1..Len(table) : data[i] \in Edited(table[i])}

\* update_terminals(data)
UpdateTerminals ==
    /\ pc = "open"
    /\ \E data \in EditedTables(terminals) :
           /\ qet' = UpdateProject(data, qet)
           /\ probe' = [op |-> "update_terminals", data |-> data]
    /\ pc' = "updated"
    /\ UNCHANGED <<disk, terminals, err, tb, drawn, clock>>

\* the namespace of the tag at index i of doc.prefixes, as the parser
\* resolves its prefix
TagUri(doc, i) ==
    (CHOOSE d \in doc.xmlns : d.prefix = doc.prefixes[i]).uri

\* ElementTree.write gives the namespaces of the tags the prefixes ns0, ns1,
\* ... in the order in which the tags first use them (the namespaces here are
\* none of those ElementTree has a prefix of its own for)
NsPrefix(doc, uri) ==
    LET first(u) == Min({i \in doc.tags : TagUri(doc, i) = u})
        before == {u \in {TagUri(doc, i) : i \in doc.tags} :
                      first(u) < first(uri)}
    IN  <<"n", "s">> \o IntToStr(Cardinality(before))

\* a node of the collection as the file holds it: a file keeps no identity
\* of nodes
RECURSIVE FromFile(_)
FromFile(nodes) ==
    [k \in 1..Len(nodes) |->
        [nodes[k] EXCEPT !.id = 0, !.sub = FromFile(@)]]

\* ElementTree.write: the document as text.  The first tag defines the
\* namespaces of the tags, and only those, under their new prefixes, and the
\* tags are written with these prefixes; texts and values stay as they are.
Written(doc) ==
    [doc EXCEPT
        !.prefixes = [i \in 1..Len(doc.prefixes) |->
                         IF i \in doc.tags
                         THEN NsPrefix(doc, TagUri(doc, i))
                         ELSE doc.prefixes[i]],
        !.xmlns = {[prefix |-> NsPrefix(doc, TagUri(doc, i)),
                    uri |-> TagUri(doc, i)] : i \in doc.tags},
        !.collection = FromFile(@)]

\* save_tb(filename), with the project file as filename
SaveTb ==
    /\ pc \in {"updated", "inserted"}
    /\ disk' = Written(qet)
    /\ pc' = "saved"
    /\ UNCHANGED <<qet, terminals, err, tb, drawn, clock, probe>>

\* the largest number of terminals of a project whose metadata is edited
MaxEdited == 2

MetaElements ==
    { El(1, <<"X", "1", ":", "1">>, TypeA, <<>>),
      El(2, <<"X", "1", ":", "2">>, TypeA,
         << <<"%", "p", "1", "%", "t", "G", "R", "O", "U", "N", "D", "%",
              "h", "W", "%", "b", "T", "r", "u", "e", "%">> >>) }

InitMeta ==
    /\ pc = "file"
    /\ \E els \in SeqsUpTo(MetaElements, MaxEdited) :
           disk = [format |-> <<"%", "f", "-", "%", "l", "%", "c">>,
                   offset |-> <<>>,
                   diagrams |-> << Page(1, els, <<>>) >>,
                   collection |-> ExtractCollection,
                   prefixes |-> <<>>, xmlns |-> {}, tags |-> {}]
    /\ qet = NoProject
    /\ terminals = <<>>
    /\ err = ""
    /\ tb = NoTB
    /\ drawn = <<>>
    /\ clock = 0
    /\ probe = NoProbe

NextMeta == Construct \/ UpdateTerminals \/ SaveTb

SpecMeta == InitMeta /\ [][NextMeta]_vars

\* C5: metadata round-trips: for every record d passed to update_terminals,
\* after save_tb and a new parse of the saved file the record with the same uuid
\* has the same terminal_type, hose, conductor and bridge as d, whatever the
\* user entered.
C5_MetadataRoundTrip ==
    pc = "reopened" /\ probe.op = "update_terminals" =>
        \A i \in 1..Len(probe.data) :
            \E j \in 1..Len(terminals) :
                /\ terminals[j].uuid = probe.data[i].uuid
                /\ terminals[j].terminal_type = probe.data[i].terminal_type
                /\ terminals[j].hose = probe.data[i].hose
                /\ terminals[j].conductor = probe.data[i].conductor
                /\ terminals[j].bridge = probe.data[i].bridge

-----------------------------------------------------------------------------
(* insert_tb                                                               *)

\* 'TB_' + name + '.elmt'
TbElementName(name) == <<"T", "B", "_">> \o name \o <<".", "e", "l", "m", "t">>

\* The loop of lines 460-462 over father.iter('element'), father being the
\* list `children`.  The iterator holds an index into the list it walks:
\* removing the child it stands on moves the next child into that place, and
\* the iterator steps over it.  Elements of a nested category are visited too,
\* and father.remove() of one of them raises ValueError, as it is no child of
\* father.  The result is the list after the loop, and whether it raised.
RECURSIVE RemoveOld(_, _, _)
RemoveOld(children, i, old) ==
    IF i > Len(children) THEN [children |-> children, raised |-> FALSE]
    ELSE IF children[i].kind = "element"
    THEN IF children[i].name = old
         THEN RemoveOld(SubSeq(children, 1, i - 1)
                            \o SubSeq(children, i + 1, Len(children)),
                        i + 1, old)
         ELSE RemoveOld(children, i + 1, old)
    ELSE IF \E k \in 1..Len(children[i].sub) : children[i].sub[k].name = old
         THEN [children |-> children, raised |-> TRUE]
         ELSE RemoveOld(children, i + 1, old)

\* the node the caller hands over: the block drawn for `name`
TbNode(name, id) ==
    [kind |-> "element", name |-> TbElementName(name),
     link_type |-> << <<"s", "i", "m", "p", "l", "e">> >>, sub |-> <<>>,
     id |-> id]

\* the names of the blocks inserted
BlockNames == {<<"X", "1">>, <<"X", "2">>}

\* the largest number of calls of insert_tb on one project object
MaxInserts == 3

\* insert_tb(name, tb_node); probe.inserted lists the names inserted so far
InsertTb ==
    /\ pc \in {"open", "inserted"}
    /\ LET sofar == IF pc = "open" THEN <<>> ELSE probe.inserted
       IN  /\ Len(sofar) < MaxInserts
           /\ \E name \in BlockNames :
              LET loop == RemoveOld(qet.collection, 1, TbElementName(name))
              IN  /\ probe' = [op |-> "insert_tb",
                               inserted |-> Append(sofar, name)]
                  /\ IF loop.raised
                     THEN /\ qet' = [qet EXCEPT !.collection = loop.children]
                          /\ err' = "ValueError"
                          /\ pc' = "failed"
                     ELSE /\ qet' = [qet EXCEPT !.collection =
                                        << TbNode(name, Len(sofar) + 1) >>
                                            \o loop.children]
                          /\ err' = ""
                          /\ pc' = "inserted"
    /\ UNCHANGED <<disk, terminals, tb, drawn, clock>>

\* the largest number of nodes in the collection category of a project file
MaxNodes == 3

OldTb == CollElement(TbElementName(<<"X", "1">>),
                     << <<"s", "i", "m", "p", "l", "e">> >>)

InsertNodes ==
    { CollElement(<<"a">>, <<TERMINAL>>),
      OldTb,
      Category(<<"s", "u", "b">>, << OldTb >>),
      Category(<<"s", "u", "b">>, << CollElement(<<"c">>, <<>>) >>) }

InitInsert ==
    /\ pc = "file"
    /\ \E nodes \in SeqsUpTo(InsertNodes, MaxNodes) :
           disk = [format |-> <<"%", "f", "-", "%", "l", "%", "c">>,
                   offset |-> <<>>,
                   diagrams |->
                       << Page(1, << El(1, <<"X", "1", ":", "1">>, TypeA, <<>>) >>,
                               <<>>) >>,
                   collection |-> nodes,
                   prefixes |-> <<>>, xmlns |-> {}, tags |-> {}]
    /\ qet = NoProject
    /\ terminals = <<>>
    /\ err = ""
    /\ tb = NoTB
    /\ drawn = <<>>
    /\ clock = 0
    /\ probe = NoProbe

NextInsert == Construct \/ InsertTb

SpecInsert == InitInsert /\ [][NextInsert]_vars

\* the elements of the collection that carry the name of the block's element
Named(name) ==
    {i \in 1..Len(IterElements(qet.collection)) :
        IterElements(qet.collection)[i].name = TbElementName(name)}

\* the number of the last call that inserted `name`
LastInsert(name) ==
    CHOOSE k \in 1..Len(probe.inserted) :
        /\ probe.inserted[k] = name
        /\ \A m \in (k + 1)..Len(probe.inserted) : probe.inserted[m] # name

\* C6: insert_tb removes the old element first if it exists: after any sequence
\* of calls the collection holds exactly one element TB_<name>.elmt for each
\* inserted name, the node inserted last, and the call raises no error wherever
\* the old element sits inside the collection category.
C6_OneElementPerBlock ==
    probe.op = "insert_tb" =>
        /\ err = ""
        /\ \A k \in 1..Len(probe.inserted) :
               /\ Cardinality(Named(probe.inserted[k])) = 1
               /\ \A i \in Named(probe.inserted[k]) :
                      IterElements(qet.collection)[i].id
                          = LastInsert(probe.inserted[k])

-----------------------------------------------------------------------------
(* _getXRefByCoord, called on its own                                      *)

\* the largest number of columns and of rows of a page
MaxGrid == 3

\* the largest width of a column and height of a row, in pixels
MaxCell == 3

\* how far outside the grid the coordinates tried lie
Margin == 4

Grid(cols, colsize, rows, rowsize) ==
    [Page(1, <<>>, <<>>) EXCEPT !.cols = cols, !.colsize = colsize,
                                !.rows = rows, !.rowsize = rowsize]

InitXRef ==
    /\ pc = "xref"
    /\ \E cols \in 1..MaxGrid, colsize \in 1..MaxCell,
          rows \in 1..MaxGrid, rowsize \in 1..MaxCell :
       \E x \in (QET_COL_ROW_SIZE - Margin)
                    ..(QET_COL_ROW_SIZE + cols * colsize + Margin),
          y \in (QET_COL_ROW_SIZE - Margin)
                    ..(QET_COL_ROW_SIZE + rows * rowsize + Margin) :
           probe = [op |-> "_getXRefByCoord", done |-> FALSE,
                    diagram |-> Grid(cols, colsize, rows, rowsize),
                    x |-> x, y |-> y,
                    raised |-> FALSE, row |-> "", col |-> <<>>]
    /\ disk = NoProject
    /\ qet = NoProject
    /\ terminals = <<>>
    /\ err = ""
    /\ tb = NoTB
    /\ drawn = <<>>
    /\ clock = 0

\* row, col = self._getXRefByCoord(diagram, element_x, element_y)
CallGetXRefByCoord ==
    /\ pc = "xref"
    /\ pc' = "xref_done"
    /\ IF XRefByCoordRaises(probe.diagram, probe.x, probe.y)
       THEN /\ probe' = [probe EXCEPT !.done = TRUE, !.raised = TRUE]
            /\ err' = "IndexError"
       ELSE /\ probe' =
                [probe EXCEPT
                    !.done = TRUE,
                    !.row = GetXRefByCoord(probe.diagram, probe.x, probe.y).row,
                    !.col = GetXRefByCoord(probe.diagram, probe.x, probe.y).col]
            /\ err' = ""
    /\ UNCHANGED <<disk, qet, terminals, tb, drawn, clock>>

NextXRef == CallGetXRefByCoord

SpecXRef == InitXRef /\ [][NextXRef]_vars

\* the element lies on the grid of the page
OnGrid ==
    /\ QET_COL_ROW_SIZE <= probe.x
    /\ probe.x < QET_COL_ROW_SIZE + probe.diagram.cols * probe.diagram.colsize
    /\ QET_COL_ROW_SIZE <= probe.y
    /\ probe.y < QET_COL_ROW_SIZE + probe.diagram.rows * probe.diagram.rowsize

\* floor((x - 25) / colsize) + 1 and floor((y - 25) / rowsize)
CellColumn == ((probe.x - QET_COL_ROW_SIZE) \div probe.diagram.colsize) + 1

CellRow == (probe.y - QET_COL_ROW_SIZE) \div probe.diagram.rowsize

\* C7: the cross-reference names the grid cell containing the element: for
\* 25 <= x < 25 + cols*colsize and 25 <= y < 25 + rows*rowsize the column is
\* floor((x-25)/colsize)+1, which lies in 1..cols, and the row is the letter of
\* index floor((y-25)/rowsize), one of the first `rows` letters.
C7_XRefNamesGridCell ==
    probe.op = "_getXRefByCoord" /\ probe.done /\ OnGrid =>
        /\ ~probe.raised
        /\ probe.col = IntToStr(CellColumn)
        /\ CellColumn \in 1..probe.diagram.cols
        /\ CellRow \in 0..(probe.diagram.rows - 1)
        /\ probe.row = Letters[CellRow + 1]

\* an element in the last column and the last row of a grid of several
C7_Witness ==
    /\ probe.op = "_getXRefByCoord" /\ probe.done /\ OnGrid
    /\ probe.diagram.cols > 1 /\ probe.diagram.rows > 1
    /\ probe.diagram.colsize > 1 /\ probe.diagram.rowsize > 1
    /\ probe.col = IntToStr(probe.diagram.cols)
    /\ probe.row = Letters[probe.diagram.rows]
    /\ probe.x > QET_COL_ROW_SIZE
                     + (probe.diagram.cols - 1) * probe.diagram.colsize

-----------------------------------------------------------------------------
(* TerminalBlock.__init__                                                  *)

LOGO_HEIGHT == 36
Y_OFFSET_BASE_TEXT == 22
X_OFFSET_CABLE_TEXT == 4

\* the keys of the settings dict, in the order __init__ reads them
CfgKeys ==
    << "-CFG_A-", "-CFG_B-", "-CFG_C-", "-CFG_D-", "-CFG_E-", "-CFG_F-",
       "-CFG_G-", "-CFG_H-", "-CFG_I-", "-CFG_J-", "-CFG_HEAD_FONT-",
       "-CFG_TERMINAL_FONT-", "-CFG_XREF_FONT-", "-CFG_CONDUCTOR_FONT-",
       "-CFG_SPLIT-" >>

\* the second item of the two-item list of each line 53-69
CfgDefaults == <<120, 44, 70, 6, 160, 20, 70, 70, 80, 70, 13, 9, 6, 6, 30>>

\* a str int() accepts: an optional sign and digits, blanks around them
IsIntText(s) ==
    LET t == Strip(s)
        d == IF t # <<>> /\ t[1] \in {"-", "+"} THEN Tail(t) ELSE t
    IN  d # <<>> /\ \A i \in 1..Len(d) : IsDigit(d[i])

\* int(v) raises ValueError on a str that is no integer
IntRaises(v) == v.t = "str" /\ ~IsIntText(v.s)

\* int(v)
IntOf(v) ==
    IF v.t # "str" THEN v.n
    ELSE LET t == Strip(v.s)
         IN  IF t[1] = "-" THEN -StrToInt(Tail(t))
             ELSE IF t[1] = "+" THEN StrToInt(Tail(t))
             ELSE StrToInt(t)

\* [int(settings[key]), default][settings == {}]: the list is built first, so
\* the lookup and int() run whatever the index is
CfgValue(settings, k) ==
    IF CfgKeys[k] \notin DOMAIN settings
    THEN [raised |-> "KeyError", value |-> 0]
    ELSE IF IntRaises(settings[CfgKeys[k]])
    THEN [raised |-> "ValueError", value |-> 0]
    ELSE [raised |-> "",
          value |-> IF DOMAIN settings = {} THEN CfgDefaults[k]
                    ELSE IntOf(settings[CfgKeys[k]])]

\* the exception __init__ raises, "" when it raises none: terminals[0] comes
\* first, then the settings in the order of the lines
InitError(collec, settings) ==
    IF collec = <<>> THEN "IndexError"
    ELSE LET bad == {k \in 1..Len(CfgKeys) : CfgValue(settings, k).raised # ""}
         IN  IF bad = {} THEN "" ELSE CfgValue(settings, Min(bad)).raised

\* the object __init__ leaves
NewTB(tb_block_name, collec, settings) ==
    [ok |-> TRUE,
     tb_block_name |-> tb_block_name,
     terminals |-> collec,
     num_terminals |-> Len(collec),
     tb_id |-> collec[1].block_name,
     HEAD_HEIGHT |-> CfgValue(settings, 1).value,
     HEAD_WIDTH |-> CfgValue(settings, 2).value,
     UNION_HEIGHT |-> CfgValue(settings, 3).value,
     UNION_WIDTH |-> CfgValue(settings, 4).value,
     TERMINAL_HEIGHT |-> CfgValue(settings, 5).value,
     TERMINAL_WIDTH |-> CfgValue(settings, 6).value,
     CONDUCTOR_LENGTH |-> CfgValue(settings, 7).value,
     HOSE_CONDUCTOR_START |-> CfgValue(settings, 8).value,
     HOSE_LENGTH |-> CfgValue(settings, 9).value,
     HOSE_CONDUCTOR_END |-> CfgValue(settings, 10).value,
     HEAD_FONT |-> CfgValue(settings, 11).value,
     TERMINAL_FONT |-> CfgValue(settings, 12).value,
     XREF_FONT |-> CfgValue(settings, 13).value,
     CONDUCTOR_FONT |-> CfgValue(settings, 14).value,
     SPLIT_SIZE |-> CfgValue(settings, 15).value]

\* TerminalBlock(tb_block_name, collec, settings)
NewTerminalBlock ==
    /\ pc = "args"
    /\ err' = InitError(probe.collec, probe.settings)
    /\ IF err' = ""
       THEN /\ tb' = NewTB(probe.tb_block_name, probe.collec, probe.settings)
            /\ pc' = "tb"
       ELSE /\ tb' = NoTB
            /\ pc' = "failed"
    /\ UNCHANGED <<disk, qet, terminals, drawn, clock, probe>>

-----------------------------------------------------------------------------
(* The nodes drawTerminalBlock writes                                       *)

\* The code computes coordinates with / 2 and * 0.10, so they are halves,
\* quarters and tenths of a pixel.  A coordinate is kept as the number of
\* twentieths of a pixel, which is an integer for every value the code writes.
Px(n) == 20 * n

\* One child of <description>.  x, y of a line are its x1, y1; uuid is the
\* time stamp of the uuid1() call, 0 on a node without uuid.
Node ==
    [tag |-> "", x |-> 0, y |-> 0, x2 |-> 0, y2 |-> 0, width |-> 0,
     height |-> 0, diameter |-> 0, orientation |-> "", text |-> <<>>,
     uuid |-> 0, font_size |-> 0, color |-> ""]

\* uuidly.uuid1() after `clk` earlier calls: the time stamp grows with every
\* call of the process
Uuid1(clk) == clk + 1

\* _circle
Circle(x, y, diameter) ==
    [Node EXCEPT !.tag = "circle", !.x = x, !.y = y, !.diameter = diameter]

\* _line
Line(x1, x2, y1, y2) ==
    [Node EXCEPT !.tag = "line", !.x = x1, !.x2 = x2, !.y = y1, !.y2 = y2]

\* _rect
Rect(x, y, width, height) ==
    [Node EXCEPT !.tag = "rect", !.x = x, !.y = y, !.width = width,
                 !.height = height]

\* _qet_term without the half terminal width of line 471: the connection point
\* at the x it is given
QetTermAtCorner(self, x, y, orientation) ==
    [Node EXCEPT !.tag = "terminal", !.x = x, !.y = y,
                 !.orientation = orientation]

\* _qet_term
QetTerm(self, x, y, orientation) ==
    [Node EXCEPT !.tag = "terminal", !.x = x + Px(self.TERMINAL_WIDTH) \div 2,
                 !.y = y, !.orientation = orientation]

\* _label_cond
LabelCond(self, x, y, text, clk) ==
    [Node EXCEPT !.tag = "dynamic_text",
                 !.x = x - Px(self.CONDUCTOR_FONT) + Px(1),
                 !.y = y, !.text = text, !.uuid = Uuid1(clk),
                 !.font_size = self.CONDUCTOR_FONT]

\* _label_header
LabelHeader(self, y, text, clk) ==
    [Node EXCEPT !.tag = "dynamic_text",
                 !.x = Px(self.HEAD_WIDTH) \div 2 - Px(self.HEAD_FONT),
                 !.y = y + (Px(Len(text)) \div 2) * self.HEAD_FONT,
                 !.text = text, !.uuid = Uuid1(clk),
                 !.font_size = self.HEAD_FONT, !.color = "#777777"]

\* _label_term
LabelTerm(self, x, y, text, clk) ==
    [Node EXCEPT !.tag = "dynamic_text",
                 !.x = x + Px(self.HEAD_WIDTH) \div 2 - Px(self.TERMINAL_WIDTH)
                         - Px(self.TERMINAL_FONT) + Px(6),
                 !.y = y + y \div 10,
                 !.text = text, !.uuid = Uuid1(clk),
                 !.font_size = self.TERMINAL_FONT, !.color = "#555555"]

\* _label_term_xref
LabelTermXref(self, x, y, text, clk) ==
    [Node EXCEPT !.tag = "dynamic_text",
                 !.x = x + Px(self.HEAD_WIDTH) \div 2 - Px(self.TERMINAL_WIDTH)
                         - Px(self.XREF_FONT) + Px(5),
                 !.y = y - y \div 10,
                 !.text = text, !.uuid = Uuid1(clk),
                 !.font_size = self.XREF_FONT]

UpperCase == Letters

LowerCase ==
    << "a", "b", "c", "d", "e", "f", "g", "h", "i", "j", "k", "l", "m", "n",
       "o", "p", "q", "r", "s", "t", "u", "v", "w", "x", "y", "z" >>

\* the str itself, as if compared without lower()
LowerUnchanged(s) == s

\* str.lower()
Lower(s) ==
    [i \in 1..Len(s) |->
        IF \E k \in 1..26 : UpperCase[k] = s[i]
        THEN LowerCase[CHOOSE k \in 1..26 : UpperCase[k] = s[i]]
        ELSE s[i]]

\* _type_term: the logo of the terminal, centred on (x, y)
TypeTerm(self, x, y, typ) ==
    IF Lower(typ) = <<"g", "r", "o", "u", "n", "d">>
    THEN LET logo_with == 15
             y1 == y - Px(10)
             y2 == y
             x1 == x - Px(logo_with) \div 2
             x2 == x + Px(logo_with) \div 2
         IN  << Line(x, x, y1, y2),
                Line(x1, x2, y2, y2),
                Line(x1 + Px(2), x2 - Px(2), y2 + Px(2), y2 + Px(2)),
                Line(x1 + Px(4), x2 - Px(4), y2 + Px(4), y2 + Px(4)),
                Line(x1 + Px(6), x2 - Px(6), y2 + Px(6), y2 + Px(6)) >>
    ELSE IF Lower(typ) = <<"f", "u", "s", "e">>
    THEN LET x1 == x - Px(self.TERMINAL_WIDTH) \div 2
             x2 == x + Px(self.TERMINAL_WIDTH) \div 2
             y1 == y - Px(LOGO_HEIGHT) \div 2
             y2 == y + Px(LOGO_HEIGHT) \div 2
             x1a == x - Px(3)
             x2a == x + Px(3)
             y1a == y1 + Px(6)
             y2a == y2 - Px(6)
         IN  << Line(x1, x2, y1, y1),
                Line(x1, x2, y2, y2),
                Line(x1a, x2a, y1a, y1a),
                Line(x1a, x2a, y2a, y2a),
                Line(x1a, x1a, y1a, y2a),
                Line(x2a, x2a, y1a, y2a),
                Line(x1a + (x2a - x1a) \div 2, x1a + (x2a - x1a) \div 2,
                     y1a - Px(3), y2a + Px(3)) >>
    ELSE << Circle(x - Px(2), y - Px(2), Px(4)) >>

\* the dynamic_text nodes of a list: one uuid1() call each
Labels(nodes) ==
    Cardinality({k \in 1..Len(nodes) : nodes[k].tag = "dynamic_text"})

\* max([len(x['cable']) for x in self.terminals])
MaxCableLen(self) ==
    CHOOSE m \in {Len(self.terminals[k].cable) : k \in 1..self.num_terminals} :
        \A k \in 1..self.num_terminals : Len(self.terminals[k].cable) <= m

\* lines 232-284: the south conductor of terminal `trmnl` at `cursor`
SouthNodes(self, trmnl, cursor, clk) ==
    LET x_term_center == cursor + Px(self.TERMINAL_WIDTH) \div 2
        below == self.CONDUCTOR_LENGTH + self.TERMINAL_HEIGHT
        text_y == Y_OFFSET_BASE_TEXT + MaxCableLen(self) * self.CONDUCTOR_FONT
        label_x == x_term_center - Px(self.CONDUCTOR_FONT)
                       - Px(X_OFFSET_CABLE_TEXT)
        y1 == below + self.HOSE_CONDUCTOR_START + self.HOSE_LENGTH
        y2 == y1 + self.HOSE_CONDUCTOR_END
    IN  IF trmnl.hose # <<>>
        THEN << Line(x_term_center, x_term_center, Px(below),
                     Px(below + self.HOSE_CONDUCTOR_START)),
                LabelCond(self, label_x, Px(below + text_y), trmnl.cable, clk),
                LabelCond(self, label_x, Px(below + self.HOSE_CONDUCTOR_START),
                          trmnl.conductor, clk + 1),
                Line(x_term_center - Px(2), x_term_center + Px(2),
                     Px(below + self.HOSE_CONDUCTOR_START - 10 - 2),
                     Px(below + self.HOSE_CONDUCTOR_START - 10 + 2)),
                Line(x_term_center, x_term_center, Px(y1), Px(y2)),
                LabelCond(self, label_x, Px(y1 + text_y), trmnl.conductor,
                          clk + 2),
                Line(x_term_center - Px(2), x_term_center + Px(2),
                     Px(y1 + text_y - 10 - 2), Px(y1 + text_y - 10 + 2)),
                QetTerm(self, cursor, Px(y2), "s") >>
        ELSE << Line(x_term_center, x_term_center, Px(below),
                     Px(below + self.CONDUCTOR_LENGTH)),
                LabelCond(self,
                          x_term_center - Px(self.CONDUCTOR_FONT) - Px(3),
                          Px(below + text_y), trmnl.cable, clk),
                QetTerm(self, cursor,
                        Px(2 * self.CONDUCTOR_LENGTH + self.TERMINAL_HEIGHT),
                        "s") >>

\* lines 286-323 without lines 299-301, which move the end of the horizontal
\* lines to the last terminal when the hose runs up to it
HoseNodesUnshifted(self, i, cursor, last_hose, last_cable_coord_x, clk) ==
    LET trmnl == self.terminals[i]
        is_last == (i = self.num_terminals)
        y1 == Px(self.CONDUCTOR_LENGTH + self.TERMINAL_HEIGHT
                     + self.HOSE_CONDUCTOR_START)
        y2 == y1 + Px(self.HOSE_LENGTH)
        x1 == last_cable_coord_x + Px(self.TERMINAL_WIDTH) \div 2
        x2 == cursor - Px(self.TERMINAL_WIDTH) \div 2
        label_y == y1 + (y2 - y1) \div 2 + Px(Len(last_hose) * 3)
    IN  IF \/ trmnl.hose # last_hose /\ last_hose # <<>>
           \/ last_hose # <<>> /\ is_last
        THEN << Line(x1, x2, y1, y1),
                Line(x1, x2, y2, y2),
                Line((x1 + x2) \div 2, (x1 + x2) \div 2, y1, y2),
                LabelCond(self,
                          (x1 + x2) \div 2 - Px(self.TERMINAL_WIDTH) + Px(10),
                          label_y, last_hose, clk) >>
             \o (IF is_last /\ trmnl.hose # last_hose /\ trmnl.hose # <<>>
                 THEN << Line(x2 + Px(self.TERMINAL_WIDTH),
                              x2 + Px(self.TERMINAL_WIDTH), y1, y2),
                         LabelCond(self,
                                   x2 + Px(self.TERMINAL_WIDTH) - Px(10),
                                   label_y, trmnl.hose, clk + 1) >>
                 ELSE <<>>)
        ELSE <<>>

\* lines 286-323: the bracket of the hose that ends before terminal i, and the
\* extra line of a last terminal that is a hose of its own
HoseNodes(self, i, cursor, last_hose, last_cable_coord_x, clk) ==
    LET trmnl == self.terminals[i]
        is_last == (i = self.num_terminals)
        y1 == Px(self.CONDUCTOR_LENGTH + self.TERMINAL_HEIGHT
                     + self.HOSE_CONDUCTOR_START)
        y2 == y1 + Px(self.HOSE_LENGTH)
        x1 == last_cable_coord_x + Px(self.TERMINAL_WIDTH) \div 2
        x2 == cursor - Px(self.TERMINAL_WIDTH) \div 2
                  + (IF is_last /\ trmnl.hose = last_hose
                     THEN Px(self.TERMINAL_WIDTH) ELSE 0)
        label_y == y1 + (y2 - y1) \div 2 + Px(Len(last_hose) * 3)
    IN  IF \/ trmnl.hose # last_hose /\ last_hose # <<>>
           \/ last_hose # <<>> /\ is_last
        THEN << Line(x1, x2, y1, y1),
                Line(x1, x2, y2, y2),
                Line((x1 + x2) \div 2, (x1 + x2) \div 2, y1, y2),
                LabelCond(self,
                          (x1 + x2) \div 2 - Px(self.TERMINAL_WIDTH) + Px(10),
                          label_y, last_hose, clk) >>
             \o (IF is_last /\ trmnl.hose # last_hose /\ trmnl.hose # <<>>
                 THEN << Line(x2 + Px(self.TERMINAL_WIDTH),
                              x2 + Px(self.TERMINAL_WIDTH), y1, y2),
                         LabelCond(self,
                                   x2 + Px(self.TERMINAL_WIDTH) - Px(10),
                                   label_y, trmnl.hose, clk + 1) >>
                 ELSE <<>>)
        ELSE <<>>

\* lines 194-228: the rectangle, the labels, the logo, the bridge and the
\* north conductor of terminal i
NorthNodes(self, i, cursor, clk) ==
    LET trmnl == self.terminals[i]
        x_term_center == cursor + Px(self.TERMINAL_WIDTH) \div 2
        y_term_center == Px(self.CONDUCTOR_LENGTH)
                             + Px(self.TERMINAL_HEIGHT) \div 2
    IN  << Rect(cursor, y_term_center - Px(self.TERMINAL_HEIGHT) \div 2,
                Px(self.TERMINAL_WIDTH), Px(self.TERMINAL_HEIGHT)),
           LabelTerm(self, x_term_center - Px(self.TERMINAL_FONT),
                     y_term_center + Px(self.TERMINAL_HEIGHT) \div 2
                         - Px(Y_OFFSET_BASE_TEXT),
                     trmnl.terminal_name, clk),
           LabelTermXref(self, x_term_center - Px(self.TERMINAL_FONT),
                         y_term_center - Px(Y_OFFSET_BASE_TEXT),
                         trmnl.terminal_xref, clk + 1) >>
        \o TypeTerm(self, x_term_center, y_term_center, trmnl.terminal_type)
        \o (IF Truthy(trmnl.bridge)
            THEN << Line(x_term_center,
                         x_term_center + Px(self.TERMINAL_WIDTH),
                         y_term_center, y_term_center) >>
            ELSE <<>>)
        \o << Line(x_term_center, x_term_center, 0, Px(self.CONDUCTOR_LENGTH)),
              LabelCond(self,
                        x_term_center - Px(self.CONDUCTOR_FONT)
                            - Px(X_OFFSET_CABLE_TEXT),
                        Px(self.CONDUCTOR_LENGTH - Y_OFFSET_BASE_TEXT + 3),
                        trmnl.cable, clk + 2),
              QetTerm(self, cursor, 0, "n") >>

\* the body of the loop of lines 193-333 for terminal i
TerminalNodes(self, i, cursor, last_hose, last_cable_coord_x, clk) ==
    LET north == NorthNodes(self, i, cursor, clk)
        south == SouthNodes(self, self.terminals[i], cursor,
                            clk + Labels(north))
    IN  north \o south
        \o HoseNodes(self, i, cursor, last_hose, last_cable_coord_x,
                     clk + Labels(north) + Labels(south))

\* the loop of lines 193-333 from terminal i on
RECURSIVE DrawTerminals(_, _, _, _, _, _)
DrawTerminals(self, i, cursor, last_hose, last_cable_coord_x, clk) ==
    IF i > self.num_terminals THEN <<>>
    ELSE LET nodes == TerminalNodes(self, i, cursor, last_hose,
                                    last_cable_coord_x, clk)
         IN  nodes \o
             DrawTerminals(self, i + 1, cursor + Px(self.TERMINAL_WIDTH),
                           self.terminals[i].hose,
                           IF self.terminals[i].hose # last_hose
                           THEN cursor ELSE last_cable_coord_x,
                           clk + Labels(nodes))

-----------------------------------------------------------------------------
(* drawTerminalBlock                                                        *)

\* the constant part of the text of <name lang="ru"> (line 347)
RuPrefix ==
    "&#x422;&#x435;&#x440;&#x43C;&#x438;&#x43D;&#x430;&#x43B;&#x44C;&#x43D;&#x44B;&#x439; &#x431;&#x43B;&#x43E;&#x43A; "

\* the texts of the ten <name> nodes with the uuid in the place of the name
ElementNamesOfUuid(name, sUUID) ==
    LET Text(lang, prefix) ==
            [lang |-> lang, prefix |-> prefix, name |-> IntToStr(sUUID)]
    IN  << Text("de", "Terminalblock "), Text("ru", RuPrefix),
           Text("pt", "Bloco terminal "), Text("en", "Terminal block "),
           Text("it", "Terminal block "), Text("fr", "Bornier "),
           Text("pl", "Blok zacisk&#xF3;w "), Text("es", "Bornero "),
           Text("nl", "Eindblok "),
           Text("cs", "Termin&#xE1;lov&#xFD; blok ") >>

\* _element_definitions: the ten <name> nodes; the text of each is its prefix
\* followed by the name
ElementNames(name, sUUID) ==
    LET Text(lang, prefix) == [lang |-> lang, prefix |-> prefix, name |-> name]
    IN  << Text("de", "Terminalblock "), Text("ru", RuPrefix),
           Text("pt", "Bloco terminal "), Text("en", "Terminal block "),
           Text("it", "Terminal block "), Text("fr", "Bornier "),
           Text("pl", "Blok zacisk&#xF3;w "), Text("es", "Bornero "),
           Text("nl", "Eindblok "),
           Text("cs", "Termin&#xE1;lov&#xFD; blok ") >>

\* _element_label
ElementLabel(self, clk) ==
    [x |-> IntToStr(self.HEAD_WIDTH + 5), y |-> IntToStr(self.HEAD_HEIGHT + 5),
     uuid |-> Uuid1(clk), font_size |-> 10, text |-> self.tb_id,
     info_name |-> "label"]

\* total_width before its loop, without the `+ 1` of line 136
TotalWidthExact(self) ==
    self.HEAD_WIDTH + self.UNION_WIDTH
        + self.num_terminals * self.TERMINAL_WIDTH

\* total_width before its loop (lines 133-136)
TotalWidth(self) ==
    self.HEAD_WIDTH + self.UNION_WIDTH
        + self.num_terminals * self.TERMINAL_WIDTH + 1

\* total_height before its loop (lines 138-143)
TotalHeight(self) ==
    self.CONDUCTOR_LENGTH + self.TERMINAL_HEIGHT + self.HOSE_CONDUCTOR_START
        + self.HOSE_LENGTH + self.HOSE_CONDUCTOR_END + 1

\* lines 167-189: the header, its label and the union, then the terminals
Description(self, clk) ==
    LET y_term_center == Px(self.CONDUCTOR_LENGTH)
                             + Px(self.TERMINAL_HEIGHT) \div 2
        cursor == Px(self.HEAD_WIDTH) + Px(self.UNION_WIDTH)
    IN  << Rect(0, y_term_center - Px(self.HEAD_HEIGHT) \div 2,
                Px(self.HEAD_WIDTH), Px(self.HEAD_HEIGHT)),
           LabelHeader(self, y_term_center, self.tb_block_name, clk),
           Rect(Px(self.HEAD_WIDTH),
                y_term_center - Px(self.UNION_HEIGHT) \div 2,
                Px(self.UNION_WIDTH), Px(self.UNION_HEIGHT)) >>
        \o DrawTerminals(self, 1, cursor, <<>>, cursor, clk + 1)

\* lines 146-336: the tree returned, built after `clk` calls of uuid1()
ElementTree(self, total_width, total_height, clk) ==
    LET name == <<"T", "B", "_">> \o self.tb_block_name
    IN  [name |-> name \o <<".", "e", "l", "m", "t">>,
         height |-> IntToStr(total_height),
         width |-> IntToStr(total_width),
         hotspot_x |-> 5, hotspot_y |-> 24,
         link_type |-> "simple",
         uuid |-> Uuid1(clk),
         names |-> ElementNames(name, Uuid1(clk)),
         label |-> ElementLabel(self, clk + 1),
         informations |-> "Terminal block",
         description |-> Description(self, clk + 2)]

\* how often drawTerminalBlock is called on one object
MaxDraws == 2

\* how often a rounding loop may run before the model stops following it
MaxLoops == 12

\* drawTerminalBlock is called; line 133-136
DrawStart ==
    /\ pc = "tb"
    /\ Len(drawn) < MaxDraws
    /\ pc' = "width_loop"
    /\ probe' = [probe EXCEPT !.op = "drawTerminalBlock",
                              !.total_width = TotalWidth(tb),
                              !.total_height = 0,
                              !.wloops = 0, !.hloops = 0]
    /\ UNCHANGED <<disk, qet, terminals, err, tb, drawn, clock>>

\* one turn of `while (total_width % 10): total_width += 1`
WidthLoop ==
    /\ pc = "width_loop"
    /\ probe.total_width % 10 # 0
    /\ probe.wloops < MaxLoops
    /\ probe' = [probe EXCEPT !.total_width = @ + 1, !.wloops = @ + 1]
    /\ UNCHANGED <<pc, disk, qet, terminals, err, tb, drawn, clock>>

\* the width loop ends; lines 138-143
HeightStart ==
    /\ pc = "width_loop"
    /\ probe.total_width % 10 = 0
    /\ pc' = "height_loop"
    /\ probe' = [probe EXCEPT !.total_height = TotalHeight(tb)]
    /\ UNCHANGED <<disk, qet, terminals, err, tb, drawn, clock>>

\* one turn of `while (total_height % 10): total_height += 1`
HeightLoop ==
    /\ pc = "height_loop"
    /\ probe.total_height % 10 # 0
    /\ probe.hloops < MaxLoops
    /\ probe' = [probe EXCEPT !.total_height = @ + 1, !.hloops = @ + 1]
    /\ UNCHANGED <<pc, disk, qet, terminals, err, tb, drawn, clock>>

\* the height loop ends; lines 146-336 build the tree and return it
DrawReturn ==
    /\ pc = "height_loop"
    /\ probe.total_height % 10 = 0
    /\ pc' = "tb"
    /\ drawn' = Append(drawn, ElementTree(tb, probe.total_width,
                                          probe.total_height, clock))
    /\ clock' = clock + 2 + Labels(Description(tb, clock + 2))
    /\ UNCHANGED <<disk, qet, terminals, err, tb, probe>>

-----------------------------------------------------------------------------
(* A terminal block built and drawn on its own                              *)

\* the longest terminal list
MaxTerminals == 2

X1 == <<"X", "1">>

BlockTerminal(uuid, name, type, cable, hose, conductor, bridge) ==
    [uuid |-> uuid, block_name |-> X1, terminal_name |-> name,
     terminal_xref |-> <<"1", "-", "A", "1">>, cable |-> cable,
     terminal_type |-> type, hose |-> hose, conductor |-> conductor,
     bridge |-> bridge]

BlockTerminals ==
    { BlockTerminal(1, <<"1">>, STANDARD, <<"c">>, <<>>, <<>>, PyStr(<<>>)),
      BlockTerminal(2, <<"2">>, <<"F", "U", "S", "E">>, <<>>, <<"H">>,
                    <<"b", "n">>, PyBool(TRUE)),
      BlockTerminal(3, <<"3">>, <<"G", "r", "o", "u", "n", "d">>,
                    <<"c", "c">>, <<"W", "1">>, <<>>, PyBool(FALSE)) }

\* a dict with every key; the entries are int or the str a form field holds
SettingsWith(b, f, g) ==
    [key \in {CfgKeys[k] : k \in 1..Len(CfgKeys)} |->
        IF key = "-CFG_B-" THEN b
        ELSE IF key = "-CFG_F-" THEN f
        ELSE IF key = "-CFG_G-" THEN g
        ELSE PyStr(IntToStr(
                 CfgDefaults[CHOOSE k \in 1..Len(CfgKeys) : CfgKeys[k] = key]))]

NoSettings == [key \in {} |-> PyInt(0)]

SettingsChoices ==
    { SettingsWith(b, f, g) :
        b \in {PyStr(<<"4", "4">>), PyInt(41), PyInt(-60)},
        f \in {PyInt(20), PyStr(<<" ", "7">>)},
        g \in {PyStr(<<"7", "0">>), PyInt(-500)} }
    \cup { NoSettings,
           [key \in {"-CFG_A-", "-CFG_B-"} |-> PyInt(100)],
           SettingsWith(PyStr(<<"x">>), PyInt(20), PyInt(70)) }

InitBlock ==
    /\ pc = "args"
    /\ \E collec \in SeqsUpTo(BlockTerminals, MaxTerminals),
          settings \in SettingsChoices :
           probe = [op |-> "TerminalBlock", tb_block_name |-> X1,
                    collec |-> collec, settings |-> settings,
                    total_width |-> 0, total_height |-> 0,
                    wloops |-> 0, hloops |-> 0]
    /\ disk = NoProject
    /\ qet = NoProject
    /\ terminals = <<>>
    /\ err = ""
    /\ tb = NoTB
    /\ drawn = <<>>
    /\ clock = 0

NextBlock ==
    \/ NewTerminalBlock
    \/ DrawStart
    \/ WidthLoop
    \/ HeightStart
    \/ HeightLoop
    \/ DrawReturn

SpecBlock == InitBlock /\ [][NextBlock]_vars

-----------------------------------------------------------------------------
(* Claims C8 - C10                                                          *)

\* HEAD_WIDTH + UNION_WIDTH + n * TERMINAL_WIDTH
WidthOfParts ==
    tb.HEAD_WIDTH + tb.UNION_WIDTH + Len(tb.terminals) * tb.TERMINAL_WIDTH

\* the five lengths stacked from the north terminal to the south one
HeightOfParts ==
    tb.CONDUCTOR_LENGTH + tb.TERMINAL_HEIGHT + tb.HOSE_CONDUCTOR_START
        + tb.HOSE_LENGTH + tb.HOSE_CONDUCTOR_END

\* text is the smallest multiple of 10 strictly greater than s
IsNextTen(text, s) ==
    \E w \in (s + 1)..(s + 10) : w % 10 = 0 /\ text = IntToStr(w)

\* C8: the declared width is the smallest multiple of 10 strictly greater
\* than HEAD_WIDTH + UNION_WIDTH + n*TERMINAL_WIDTH, the declared height the
\* smallest multiple of 10 strictly greater than the sum of the five lengths,
\* and each rounding loop ends after at most nine turns, whatever the sign of
\* the settings.
C8_BoundingDimensions ==
    /\ \A k \in 1..Len(drawn) :
           /\ IsNextTen(drawn[k].width, WidthOfParts)
           /\ IsNextTen(drawn[k].height, HeightOfParts)
    /\ pc \in {"width_loop", "height_loop"} =>
           /\ probe.wloops <= 9
           /\ probe.hloops <= 9
           /\ probe.wloops = 9 => probe.total_width % 10 = 0
           /\ probe.hloops = 9 => probe.total_height % 10 = 0

\* a block whose parts add up to a multiple of 10 has been drawn: the width
\* loop ran its nine turns and the width is ten more than the parts
C8_Witness ==
    /\ pc = "tb" /\ Len(drawn) > 0
    /\ WidthOfParts % 10 = 0
    /\ probe.wloops = 9
    /\ drawn[1].width = IntToStr(WidthOfParts + 10)

\* the parameters of the object in the order of CfgKeys
Parameters ==
    << tb.HEAD_HEIGHT, tb.HEAD_WIDTH, tb.UNION_HEIGHT, tb.UNION_WIDTH,
       tb.TERMINAL_HEIGHT, tb.TERMINAL_WIDTH, tb.CONDUCTOR_LENGTH,
       tb.HOSE_CONDUCTOR_START, tb.HOSE_LENGTH, tb.HOSE_CONDUCTOR_END,
       tb.HEAD_FONT, tb.TERMINAL_FONT, tb.XREF_FONT, tb.CONDUCTOR_FONT,
       tb.SPLIT_SIZE >>

\* every key is there and int() accepts every entry
SettingsGiven ==
    \A k \in 1..Len(CfgKeys) :
        /\ CfgKeys[k] \in DOMAIN probe.settings
        /\ ~IntRaises(probe.settings[CfgKeys[k]])

\* C9: constructing a TerminalBlock with settings == {} succeeds and yields
\* HEAD_HEIGHT 120, HEAD_WIDTH 44, UNION_HEIGHT 70, UNION_WIDTH 6,
\* TERMINAL_HEIGHT 160, TERMINAL_WIDTH 20, CONDUCTOR_LENGTH 70, hose lengths
\* 70/80/70 and fonts 13/9/6/6; with settings given, each parameter equals the
\* integer value of its '-CFG_*-' entry.
C9_SettingsOrDefaults ==
    pc # "args" /\ probe.collec # <<>> =>
        /\ DOMAIN probe.settings = {} =>
               /\ tb.ok
               /\ SubSeq(Parameters, 1, 14)
                      = <<120, 44, 70, 6, 160, 20, 70, 70, 80, 70, 13, 9, 6, 6>>
        /\ SettingsGiven =>
               /\ tb.ok
               /\ \A k \in 1..Len(CfgKeys) :
                      Parameters[k] = IntOf(probe.settings[CfgKeys[k]])

\* a tree without the values of its uuid attributes
WithoutUuids(tree) ==
    [tree EXCEPT !.uuid = 0, !.label.uuid = 0,
                 !.description =
                     [k \in 1..Len(@) |-> [@[k] EXCEPT !.uuid = 0]]]

\* the uuid attributes of a tree
UuidsOf(tree) ==
    {tree.uuid, tree.label.uuid}
        \cup {tree.description[k].uuid :
                 k \in {i \in 1..Len(tree.description) :
                           tree.description[i].tag = "dynamic_text"}}

\* C10 as stated: two calls of drawTerminalBlock on the same block name,
\* terminal list and settings return identical trees.
C10_IdenticalTrees ==
    \A i, j \in 1..Len(drawn) : drawn[i] = drawn[j]

\* C10, amended: two calls of drawTerminalBlock on the same block name,
\* terminal list and settings return trees with the same tags, attributes and
\* texts in the same order, except for the uuid attributes: those are fresh in
\* every call, no value of one tree occurs in the other.
C10_IdenticalButUuids ==
    \A i, j \in 1..Len(drawn) :
        /\ WithoutUuids(drawn[i]) = WithoutUuids(drawn[j])
        /\ i # j => UuidsOf(drawn[i]) \cap UuidsOf(drawn[j]) = {}

\* a block of two terminals, one of them in a hose, has been drawn twice
C10_Witness ==
    /\ Len(drawn) >= 2
    /\ tb.num_terminals >= 2
    /\ \E k \in 1..tb.num_terminals : tb.terminals[k].hose # <<>>
    /\ drawn[1].uuid # drawn[2].uuid

-----------------------------------------------------------------------------
(* The project file over the life of a project object                       *)

\* the largest number of prefix-like words in the text of a project file
MaxPrefixes == 2

ns0 == <<"n", "s", "0">>

\* "ns0" and "dc" as a changed logo brings them, "X1" as a label after a blank
PrefixWords == {ns0, <<"d", "c">>, <<"X", "1">>}

XmlnsChoices ==
    { {}, {[prefix |-> ns0, uri |-> ns0]},
      {[prefix |-> ns0, uri |-> <<"h", "t", "t", "p">>]} }

InitFile ==
    /\ pc = "file"
    /\ \E words \in SeqsUpTo(PrefixWords, MaxPrefixes), xmlns \in XmlnsChoices :
       \E tags \in SUBSET {i \in 1..Len(words) : words[i] # <<"X", "1">>} :
           disk = [format |-> <<"%", "f", "-", "%", "l", "%", "c">>,
                   offset |-> <<>>,
                   diagrams |->
                       << Page(1, << El(1, <<"X", "1", ":", "1">>, TypeA, <<>>) >>,
                               <<>>) >>,
                   collection |-> ExtractCollection,
                   prefixes |-> words, xmlns |-> xmlns, tags |-> tags]
    /\ qet = NoProject
    /\ terminals = <<>>
    /\ err = ""
    /\ tb = NoTB
    /\ drawn = <<>>
    /\ clock = 0
    /\ probe = NoProbe

\* the caller reads the attribute `terminals`
ReadTerminals ==
    /\ pc = "open"
    /\ probe.op # "terminals"
    /\ probe' = [op |-> "terminals", data |-> terminals]
    /\ UNCHANGED <<pc, disk, qet, terminals, err, tb, drawn, clock>>

NextFile ==
    \/ Construct
    \/ ReadTerminals
    \/ UpdateTerminals
    \/ InsertTb
    \/ SaveTb

SpecFile == InitFile /\ [][NextFile]_vars

\* the prefixes of a file that start with ns, dc or rdf and lack their
\* xmlns:prefix="prefix"
Undefined(doc) ==
    {d \in {[prefix |-> doc.prefixes[i], uri |-> doc.prefixes[i]] :
                i \in 1..Len(doc.prefixes)} :
        /\ d \notin doc.xmlns
        /\ \/ StartsWith(d.prefix, <<"n", "s">>)
           \/ StartsWith(d.prefix, <<"d", "c">>)
           \/ StartsWith(d.prefix, <<"r", "d", "f">>)}

\* C11 as stated: constructing a QETProject, reading `terminals`,
\* update_terminals and insert_tb leave the project file unchanged; the file
\* changes only in a call of save_tb.
C11_OnlySaveTbWrites ==
    [][disk' # disk => pc' = "saved"]_vars

\* C11, amended: the constructor rewrites the project file exactly when its
\* text holds a prefix that starts with ns, dc or rdf and has no
\* xmlns:prefix="prefix": it adds those definitions to the first tag and
\* changes nothing else.  Reading `terminals`, update_terminals and insert_tb
\* leave the file unchanged, and every other change of the file is a call of
\* save_tb.
C11_OnlySaveTbOrNamespaces ==
    [][/\ pc \in {"file", "saved"} /\ pc' # pc =>
              disk' = [disk EXCEPT !.xmlns = @ \cup Undefined(disk)]
       /\ disk' # disk =>
              \/ pc' = "saved"
              \/ pc \in {"file", "saved"} /\ Undefined(disk) # {}]_vars

\* a project object exists whose constructor defined "dc" in the file, and
\* the caller has gone on to update_terminals or insert_tb
C11_Witness ==
    /\ pc \in {"updated", "inserted"}
    /\ [prefix |-> <<"d", "c">>, uri |-> <<"d", "c">>] \in disk.xmlns
    /\ qet # disk

-----------------------------------------------------------------------------
(* QETProject(project_file, fromPage, toPage)                               *)

\* the largest number of terminal elements of the project
MaxPaged == 3

\* the number of pages of the project
Pages == 2

PagedElements ==
    { El(1, <<"X", "1", ":", "1">>, TypeA, <<>>),
      El(2, <<"X", "1", ":", "2">>, TypeA, <<>>),
      El(3, <<"X", "2", ":", "1">>, TypeA, <<>>) }

\* the elements of els that page p holds, page[k] being the page of els[k]
OnPage(els, page, p) ==
    LET F[k \in 0..Len(els)] ==
            IF k = 0 THEN <<>>
            ELSE IF page[k] = p THEN Append(F[k - 1], els[k]) ELSE F[k - 1]
    IN  F[Len(els)]

\* The arguments fromPage and toPage are kept in probe: <<>> for the default
\* '' and <<n>> for page n.  __init__ and _set_used_terminals never read them.
InitPages ==
    /\ pc = "file"
    /\ \E els \in SeqsUpTo(PagedElements, MaxPaged) :
       \E page \in [1..Len(els) -> 1..Pages] :
           /\ \A i, j \in 1..Len(els) : els[i] = els[j] => i = j
           /\ disk = [format |-> <<"%", "f", "-", "%", "l", "%", "c">>,
                      offset |-> <<>>,
                      diagrams |-> [p \in 1..Pages |->
                                       Page(p, OnPage(els, page, p), <<>>)],
                      collection |-> ExtractCollection,
                      prefixes |-> <<>>, xmlns |-> {}, tags |-> {}]
    /\ \E fromPage \in {<<>>} \cup {<<n>> : n \in 1..Pages},
          toPage \in {<<>>} \cup {<<n>> : n \in 1..Pages} :
           probe = [op |-> "QETProject", fromPage |-> fromPage,
                    toPage |-> toPage]
    /\ qet = NoProject
    /\ terminals = <<>>
    /\ err = ""
    /\ tb = NoTB
    /\ drawn = <<>>
    /\ clock = 0

NextPages == Construct

SpecPages == InitPages /\ [][NextPages]_vars

\* the page (the order of the diagram) of the element a record was made from
PageOf(rec) ==
    LET d == CHOOSE d \in 1..Len(qet.diagrams) :
                 \E k \in 1..Len(qet.diagrams[d].elements) :
                     qet.diagrams[d].elements[k].uuid = rec.uuid
    IN  qet.diagrams[d].order

\* C12: when QETProject is constructed with fromPage and toPage, `terminals`
\* contains no record from a page outside the range fromPage..toPage.
C12_OnlyPagesInRange ==
    /\ pc = "open" /\ probe.op = "QETProject"
    /\ probe.fromPage # <<>> /\ probe.toPage # <<>>
    /\ probe.fromPage[1] <= probe.toPage[1]
    => \A i \in 1..Len(terminals) :
           PageOf(terminals[i]) \in probe.fromPage[1]..probe.toPage[1]

-----------------------------------------------------------------------------
(* From the project to the drawing of a block                               *)

\* the settings dict with the values of the plugin's form left as they are
FormSettings == SettingsWith(PyStr(<<"4", "4">>), PyInt(20), PyStr(<<"7", "0">>))

\* the records of one block, in the order of `terminals`
OfBlock(table, name) ==
    LET F[k \in 0..Len(table)] ==
            IF k = 0 THEN <<>>
            ELSE IF table[k].block_name = name THEN Append(F[k - 1], table[k])
            ELSE F[k - 1]
    IN  F[Len(table)]

\* the table with the bridge column edited, or left as it is
BridgeTables(table) ==
    {data \in [1..Len(table) ->
                  UNION {{[table[i] EXCEPT !.bridge = b] :
                             b \in BridgeChoices \cup {table[i].bridge}} :
                         i \in 1..Len(table)}] :
        \A i \in 1..Len(table) : [data[i] EXCEPT !.bridge = table[i].bridge]
                                     = table[i]}

\* update_terminals(data), data being the table with bridges ticked or not
UpdateBridges ==
    /\ pc = "open"
    /\ \E data \in BridgeTables(terminals) :
           /\ qet' = UpdateProject(data, qet)
           /\ probe' = [op |-> "update_terminals", data |-> data]
    /\ pc' = "updated"
    /\ UNCHANGED <<disk, terminals, err, tb, drawn, clock>>

\* TerminalBlock(name, the terminals of the block, settings), called with the
\* terminals of a project object; probe keeps the table passed to
\* update_terminals before, if any
BlockOfProject ==
    /\ pc \in {"open", "reopened"}
    /\ \E name \in {terminals[i].block_name : i \in 1..Len(terminals)} :
           /\ probe' = [op |-> "TerminalBlock", tb_block_name |-> name,
                        collec |-> OfBlock(terminals, name),
                        settings |-> FormSettings,
                        total_width |-> 0, total_height |-> 0,
                        wloops |-> 0, hloops |-> 0,
                        data |-> IF probe.op = "update_terminals"
                                 THEN probe.data ELSE <<>>]
           /\ tb' = NewTB(name, OfBlock(terminals, name), FormSettings)
    /\ pc' = "tb"
    /\ UNCHANGED <<disk, qet, terminals, err, drawn, clock>>

NextBridge ==
    \/ Construct
    \/ UpdateBridges
    \/ SaveTb
    \/ BlockOfProject
    \/ DrawStart
    \/ WidthLoop
    \/ HeightStart
    \/ HeightLoop
    \/ DrawReturn

SpecBridge == InitMeta /\ [][NextBridge]_vars

\* the x of the centre of the i-th terminal (from 1) and the y of the centres
XTermCenter(i) ==
    Px(tb.HEAD_WIDTH + tb.UNION_WIDTH + (i - 1) * tb.TERMINAL_WIDTH)
        + Px(tb.TERMINAL_WIDTH) \div 2

YTermCenter == Px(tb.CONDUCTOR_LENGTH) + Px(tb.TERMINAL_HEIGHT) \div 2

\* the tree has the line from the centre of terminal i to the centre of the
\* next one
BridgeDrawn(tree, i) ==
    \E k \in 1..Len(tree.description) :
        /\ tree.description[k].tag = "line"
        /\ tree.description[k].x = XTermCenter(i)
        /\ tree.description[k].x2 = XTermCenter(i) + Px(tb.TERMINAL_WIDTH)
        /\ tree.description[k].y = YTermCenter
        /\ tree.description[k].y2 = YTermCenter

\* the bridge flag of terminal i: the one passed to update_terminals when the
\* block was made after update_terminals, the one of the record otherwise
BridgeFlag(i) ==
    IF \E j \in 1..Len(probe.data) : probe.data[j].uuid = tb.terminals[i].uuid
    THEN probe.data[CHOOSE j \in 1..Len(probe.data) :
                        probe.data[j].uuid = tb.terminals[i].uuid].bridge
    ELSE tb.terminals[i].bridge

\* C13: drawTerminalBlock draws the bridge line from a terminal to the next
\* one exactly for the terminals whose bridge flag is True, including when the
\* flag was written by update_terminals (as True or False), saved, and
\* re-read by a new QETProject.
C13_BridgeIffFlag ==
    pc = "tb" /\ qet # NoProject =>
        \A d \in 1..Len(drawn) : \A i \in 1..tb.num_terminals :
            BridgeDrawn(drawn[d], i)
                <=> Format(BridgeFlag(i)) = <<"T", "r", "u", "e">>

-----------------------------------------------------------------------------
(* The label of one terminal element                                        *)

\* the longest label
MaxLabel == 5

LabelChars == {"X", "1", ":", " "}

InitLabel ==
    /\ pc = "file"
    /\ \E label \in SeqsUpTo(LabelChars, MaxLabel) :
           disk = [format |-> <<"%", "f", "-", "%", "l", "%", "c">>,
                   offset |-> <<>>,
                   diagrams |-> << Page(1, << El(1, label, TypeA, <<>>) >>,
                                        <<>>) >>,
                   collection |-> ExtractCollection,
                   prefixes |-> <<>>, xmlns |-> {}, tags |-> {}]
    /\ qet = NoProject
    /\ terminals = <<>>
    /\ err = ""
    /\ tb = NoTB
    /\ drawn = <<>>
    /\ clock = 0
    /\ probe = NoProbe

NextLabel == Construct

SpecLabel == InitLabel /\ [][NextLabel]_vars

\* C14: for every extracted record, block_name + ':' + terminal_name equals
\* the stripped label of the element it came from, for every label accepted
\* as a valid terminal, including labels that contain more than one ':'.
C14_LabelIsBlockColonName ==
    pc = "open" =>
        \A i \in 1..Len(terminals) :
            terminals[i].block_name \o <<":">> \o terminals[i].terminal_name
                = Strip(GetElementName(SourceOf(terminals[i])))

-----------------------------------------------------------------------------
(* Parse, update with the table as read, save, parse again                  *)

\* the largest number of terminals of block X1
MaxRound == 10

\* the largest number of terminals of block X2
MaxOther == 2

\* terminal k of a block; with `numbered` its 'function' text holds %pk%
RoundElement(uuid, block, k, numbered) ==
    El(uuid, block \o <<":">> \o IntToStr(k), TypeA,
       IF numbered THEN << <<"%", "p">> \o IntToStr(k) \o <<"%">> >> ELSE <<>>)

InitRound ==
    /\ pc = "file"
    /\ \E n \in 1..MaxRound, m \in 0..MaxOther, numbered \in BOOLEAN :
           disk = [format |-> <<"%", "f", "-", "%", "l", "%", "c">>,
                   offset |-> <<>>,
                   diagrams |->
                       << Page(1,
                               [k \in 1..(n + m) |->
                                   IF k <= n
                                   THEN RoundElement(k, X1, k, numbered)
                                   ELSE RoundElement(k, <<"X", "2">>, k - n,
                                                     numbered)],
                               <<>>) >>,
                   collection |-> ExtractCollection,
                   prefixes |-> <<>>, xmlns |-> {}, tags |-> {}]
    /\ qet = NoProject
    /\ terminals = <<>>
    /\ err = ""
    /\ tb = NoTB
    /\ drawn = <<>>
    /\ clock = 0
    /\ probe = NoProbe

\* update_terminals(terminals): the table as it was read
UpdateUnmodified ==
    /\ pc = "open"
    /\ qet' = UpdateProject(terminals, qet)
    /\ probe' = [op |-> "update_terminals", data |-> terminals]
    /\ pc' = "updated"
    /\ UNCHANGED <<disk, terminals, err, tb, drawn, clock>>

NextRound == Construct \/ UpdateUnmodified \/ SaveTb

SpecRound == InitRound /\ [][NextRound]_vars

\* the uuid and the position of every record, in list order
Positions(table) ==
    [i \in 1..Len(table) |-> <<table[i].uuid, table[i].terminal_pos>>]

\* C15: parsing a project, calling update_terminals with the unmodified
\* `terminals` list, saving, and parsing the saved file again yields the same
\* terminal list in the same order with the same terminal_pos values, for
\* blocks of any size (including blocks with 10 or more terminals).
C15_PositionRoundTrip ==
    pc = "reopened" /\ probe.op = "update_terminals" =>
        Positions(terminals) = Positions(probe.data)

-----------------------------------------------------------------------------
(* Blocks with hoses                                                        *)

\* the longest terminal list of a block with hoses
MaxRun == 4

\* an independent conductor, a conductor of hose H and one of hose W1
HoseTerminals ==
    { BlockTerminal(1, <<"1">>, STANDARD, <<"c">>, <<>>, <<>>, PyStr(<<>>)),
      BlockTerminal(2, <<"2">>, <<"F", "U", "S", "E">>, <<>>, <<"H">>,
                    <<"b", "n">>, PyBool(TRUE)),
      BlockTerminal(3, <<"3">>, <<"G", "r", "o", "u", "n", "d">>,
                    <<"c", "c">>, <<"W", "1">>, <<>>, PyBool(FALSE)) }

\* the form as it is, and with a conductor length longer than a whole hose
HoseSettings ==
    {FormSettings, SettingsWith(PyInt(44), PyInt(20), PyInt(300))}

InitHose ==
    /\ pc = "args"
    /\ \E collec \in SeqsUpTo(HoseTerminals, MaxRun),
          settings \in HoseSettings :
           probe = [op |-> "TerminalBlock", tb_block_name |-> X1,
                    collec |-> collec, settings |-> settings,
                    total_width |-> 0, total_height |-> 0,
                    wloops |-> 0, hloops |-> 0]
    /\ disk = NoProject
    /\ qet = NoProject
    /\ terminals = <<>>
    /\ err = ""
    /\ tb = NoTB
    /\ drawn = <<>>
    /\ clock = 0

NextHose ==
    \/ NewTerminalBlock
    \/ DrawStart
    \/ WidthLoop
    \/ HeightStart
    \/ HeightLoop
    \/ DrawReturn

SpecHose == InitHose /\ [][NextHose]_vars

\* terminals s..e are a maximal run of consecutive terminals with the same
\* non-empty hose
IsRun(s, e) ==
    /\ s <= e
    /\ tb.terminals[s].hose # <<>>
    /\ \A k \in s..e : tb.terminals[k].hose = tb.terminals[s].hose
    /\ s = 1 \/ tb.terminals[s - 1].hose # tb.terminals[s].hose
    /\ e = tb.num_terminals
           \/ tb.terminals[e + 1].hose # tb.terminals[s].hose

Runs ==
    {r \in (1..tb.num_terminals) \X (1..tb.num_terminals) : IsRun(r[1], r[2])}

\* the y of the two horizontal lines of a hose
HoseTop ==
    Px(tb.CONDUCTOR_LENGTH + tb.TERMINAL_HEIGHT + tb.HOSE_CONDUCTOR_START)

HoseBottom == HoseTop + Px(tb.HOSE_LENGTH)

\* the labels of a tree that carry `name` and stand at the height of a hose
\* label, half way down the hose
HoseLabels(tree, name) ==
    {k \in 1..Len(tree.description) :
        /\ tree.description[k].tag = "dynamic_text"
        /\ tree.description[k].text = name
        /\ tree.description[k].y > HoseTop
        /\ tree.description[k].y < HoseBottom}

\* C16: for every maximal run of consecutive terminals that share the same
\* non-empty hose name, drawTerminalBlock emits exactly one hose label carrying
\* that name, including a run of length one, a run that ends at the last
\* terminal, and a block consisting of a single terminal.
C16_OneLabelPerHose ==
    pc = "tb" =>
        \A d \in 1..Len(drawn) :
            \A name \in {tb.terminals[k].hose : k \in 1..tb.num_terminals}
                            \ {<<>>} :
                Cardinality(HoseLabels(drawn[d], name))
                    = Cardinality({r \in Runs : tb.terminals[r[1]].hose = name})

\* the horizontal lines of a tree at the top and at the bottom of the hoses
HoseLines(tree, y) ==
    {k \in 1..Len(tree.description) :
        /\ tree.description[k].tag = "line"
        /\ tree.description[k].y = y
        /\ tree.description[k].y2 = y}

\* C17: whenever drawTerminalBlock draws the two horizontal hose lines for a
\* run of terminals with the same hose, both lines extend from the x centre of
\* the first terminal of that run to the x centre of its last terminal, at
\* y = bottom of terminal + HOSE_CONDUCTOR_START and that y + HOSE_LENGTH.
\* The lines come in pairs, and they are drawn at least for every run that
\* ends before the last terminal or holds several terminals.
C17_HoseLinesSpanRun ==
    pc = "tb" =>
        \A d \in 1..Len(drawn) :
            /\ \A y \in {HoseTop, HoseBottom} : \A k \in HoseLines(drawn[d], y) :
                   \E r \in Runs :
                       /\ drawn[d].description[k].x = XTermCenter(r[1])
                       /\ drawn[d].description[k].x2 = XTermCenter(r[2])
            /\ \A k \in HoseLines(drawn[d], HoseTop) :
                   \E m \in HoseLines(drawn[d], HoseBottom) :
                       /\ drawn[d].description[m].x = drawn[d].description[k].x
                       /\ drawn[d].description[m].x2 = drawn[d].description[k].x2
            /\ \A r \in Runs :
                   r[2] < tb.num_terminals \/ r[1] < r[2] =>
                       \E k \in HoseLines(drawn[d], HoseTop) :
                           /\ drawn[d].description[k].x = XTermCenter(r[1])
                           /\ drawn[d].description[k].x2 = XTermCenter(r[2])

\* a block has been drawn in which a hose of two conductors starts after the
\* first terminal and runs up to the last one, and another hose ends earlier
C17_Witness ==
    /\ pc = "tb" /\ Len(drawn) > 0
    /\ \E r \in Runs : r[1] > 1 /\ r[1] < r[2] /\ r[2] = tb.num_terminals
    /\ \E r \in Runs : r[2] < tb.num_terminals
    /\ Cardinality(HoseLines(drawn[1], HoseTop)) = 2
    /\ Cardinality(HoseLines(drawn[1], HoseBottom)) = 2

-----------------------------------------------------------------------------
(* The logo of a terminal                                                   *)

\* the longest terminal list of a block drawn for its logos
MaxSymbols == 2

\* terminal_type values: the three the plugin offers in several spellings,
\* the empty str and strings it does not know
SymbolTypes ==
    { STANDARD, <<>>, <<"f", "u", "s", "e", "d">>,
      <<"g", "r", "o", "u", "n", "d">>, <<"G", "R", "O", "U", "N", "D">>,
      <<"G", "r", "o", "u", "n", "d">>,
      <<"f", "u", "s", "e">>, <<"F", "U", "S", "E">>, <<"f", "U", "s", "E">> }

\* bridged terminals without hose, one of every type
SymbolTerminals ==
    { BlockTerminal(1, <<"1">>, t, <<"c">>, <<>>, <<>>, PyBool(TRUE)) :
        t \in SymbolTypes }

InitSymbol ==
    /\ pc = "args"
    /\ \E collec \in SeqsUpTo(SymbolTerminals, MaxSymbols) :
           probe = [op |-> "TerminalBlock", tb_block_name |-> X1,
                    collec |-> collec, settings |-> FormSettings,
                    total_width |-> 0, total_height |-> 0,
                    wloops |-> 0, hloops |-> 0]
    /\ disk = NoProject
    /\ qet = NoProject
    /\ terminals = <<>>
    /\ err = ""
    /\ tb = NoTB
    /\ drawn = <<>>
    /\ clock = 0

NextSymbol ==
    \/ NewTerminalBlock
    \/ DrawStart
    \/ WidthLoop
    \/ HeightStart
    \/ HeightLoop
    \/ DrawReturn

SpecSymbol == InitSymbol /\ [][NextSymbol]_vars

\* the left edge of the rectangle of terminal i
XTermLeft(i) ==
    Px(tb.HEAD_WIDTH) + Px(tb.UNION_WIDTH) + (i - 1) * Px(tb.TERMINAL_WIDTH)

\* the lines of a tree that lie within the rectangle of terminal i, off its
\* upper and lower edge: the conductors end on the edges and a bridge leaves
\* the rectangle to the right
SymbolLines(tree, i) ==
    {k \in 1..Len(tree.description) :
        /\ tree.description[k].tag = "line"
        /\ \A x \in {tree.description[k].x, tree.description[k].x2} :
               x >= XTermLeft(i) /\ x <= XTermLeft(i) + Px(tb.TERMINAL_WIDTH)
        /\ \A y \in {tree.description[k].y, tree.description[k].y2} :
               /\ y > Px(tb.CONDUCTOR_LENGTH)
               /\ y < Px(tb.CONDUCTOR_LENGTH) + Px(tb.TERMINAL_HEIGHT)}

\* the circles of a tree within the rectangle of terminal i
SymbolCircles(tree, i) ==
    {k \in 1..Len(tree.description) :
        /\ tree.description[k].tag = "circle"
        /\ tree.description[k].x >= XTermLeft(i)
        /\ tree.description[k].x < XTermLeft(i) + Px(tb.TERMINAL_WIDTH)}

\* typ is `word` (given in small letters) but for the case of its letters
IsWord(typ, word) ==
    /\ Len(typ) = Len(word)
    /\ \A i \in 1..Len(word) :
           \/ typ[i] = word[i]
           \/ \E k \in 1..26 : word[i] = LowerCase[k] /\ typ[i] = UpperCase[k]

\* C18: each terminal gets exactly one type symbol chosen case-insensitively
\* from its terminal_type: 'ground' yields 5 lines and no circle, 'fuse'
\* yields 7 lines and no circle, every other value one circle of diameter 4
\* and no symbol lines.
C18_OneSymbolPerTerminal ==
    pc = "tb" =>
        \A d \in 1..Len(drawn) : \A i \in 1..tb.num_terminals :
            LET typ == tb.terminals[i].terminal_type
                lines == Cardinality(SymbolLines(drawn[d], i))
                circles == SymbolCircles(drawn[d], i)
            IN  IF IsWord(typ, <<"g", "r", "o", "u", "n", "d">>)
                THEN lines = 5 /\ circles = {}
                ELSE IF IsWord(typ, <<"f", "u", "s", "e">>)
                THEN lines = 7 /\ circles = {}
                ELSE /\ lines = 0
                     /\ Cardinality(circles) = 1
                     /\ \A k \in circles :
                            drawn[d].description[k].diameter = Px(4)

\* a block of a ground terminal written 'Ground' and a terminal of an unknown
\* type has been drawn
C18_Witness ==
    /\ pc = "tb" /\ Len(drawn) > 0
    /\ tb.num_terminals = 2
    /\ tb.terminals[1].terminal_type = <<"G", "r", "o", "u", "n", "d">>
    /\ tb.terminals[2].terminal_type = <<"f", "u", "s", "e", "d">>
    /\ Cardinality(SymbolLines(drawn[1], 1)) = 5
    /\ Cardinality(SymbolCircles(drawn[1], 2)) = 1

-----------------------------------------------------------------------------
(* Rectangles and connection points                                         *)

\* the nodes of a tree with a given tag, in document order
NodesOf(tree, tag) ==
    LET F[k \in 0..Len(tree.description)] ==
            IF k = 0 THEN <<>>
            ELSE IF tree.description[k].tag = tag
                 THEN Append(F[k - 1], tree.description[k])
                 ELSE F[k - 1]
    IN  F[Len(tree.description)]

\* C19: for a block of n terminals drawTerminalBlock emits exactly n+2
\* rectangles (header, union, one per terminal) and exactly 2n connection
\* points; the rectangle of the i-th terminal is at
\* x = HEAD_WIDTH + UNION_WIDTH + i*TERMINAL_WIDTH (i from 0, in list order),
\* and its north and south connection points are both at that x +
\* TERMINAL_WIDTH/2, the north one at y = 0.
C19_RectsAndConnectionPoints ==
    pc = "tb" =>
        \A d \in 1..Len(drawn) :
            LET rects == NodesOf(drawn[d], "rect")
                points == NodesOf(drawn[d], "terminal")
            IN  /\ Len(rects) = tb.num_terminals + 2
                /\ Len(points) = 2 * tb.num_terminals
                /\ \A i \in 1..tb.num_terminals :
                       LET x == Px(tb.HEAD_WIDTH) + Px(tb.UNION_WIDTH)
                                    + (i - 1) * Px(tb.TERMINAL_WIDTH)
                           north == points[2 * i - 1]
                           south == points[2 * i]
                       IN  /\ rects[i + 2].x = x
                           /\ north.orientation = "n"
                           /\ north.x = x + Px(tb.TERMINAL_WIDTH) \div 2
                           /\ north.y = 0
                           /\ south.orientation = "s"
                           /\ south.x = x + Px(tb.TERMINAL_WIDTH) \div 2

\* a block of an independent conductor followed by two conductors of a hose
\* has been drawn, with its five rectangles and six connection points
C19_Witness ==
    /\ pc = "tb" /\ Len(drawn) > 0
    /\ tb.num_terminals = 3
    /\ tb.terminals[1].hose = <<>>
    /\ tb.terminals[2].hose = <<"H">>
    /\ tb.terminals[3].hose = <<"H">>
    /\ Len(NodesOf(drawn[1], "rect")) = 5
    /\ Len(NodesOf(drawn[1], "terminal")) = 6

\* C20: every connection point emitted by drawTerminalBlock lies inside the
\* declared bounding box: for all non-negative integer settings and all
\* terminal lists, each `terminal` element has 0 <= x <= declared width and
\* 0 <= y <= declared height, both for terminals that belong to a hose and for
\* independent conductors.
C20_ConnectionPointsInsideBox ==
    pc = "tb" =>
        \A d \in 1..Len(drawn) :
            LET points == NodesOf(drawn[d], "terminal")
            IN  \A k \in 1..Len(points) :
                    /\ 0 <= points[k].x
                    /\ points[k].x <= Px(StrToInt(drawn[d].width))
                    /\ 0 <= points[k].y
                    /\ points[k].y <= Px(StrToInt(drawn[d].height))

-----------------------------------------------------------------------------
(* Attributes of the page in the cross reference                            *)

\* values of the report label of the project with and without %M and %LM
AttrFormats ==
    { <<"%", "f", "-", "%", "l", "%", "c">>,
      <<"%", "M">>,
      <<"%", "M", "/", "%", "f">>,
      <<"%", "L", "M", ".", "%", "M">>,
      <<"=", "%", "L", "M", "+", "%", "f">>,
      <<"%", "F", "%", "M", "%", "c">> }

\* the attributes machine and locmach of a page: none, one or both defined
AttrChoices ==
    UNION { [names -> {<<"M">>, <<"K", "2">>}] :
                names \in SUBSET {"machine", "locmach"} }

InitAttr ==
    /\ pc = "file"
    /\ \E format \in AttrFormats, attrs \in AttrChoices,
          offset \in {<<>>, <<1>>} :
           disk = [format |-> format,
                   offset |-> offset,
                   diagrams |->
                       << [Page(1, << El(1, <<"X", "1", ":", "1">>, TypeA,
                                         <<>>) >>, <<>>)
                              EXCEPT !.attrs = attrs] >>,
                   collection |-> ExtractCollection,
                   prefixes |-> <<>>, xmlns |-> {}, tags |-> {}]
    /\ qet = NoProject
    /\ terminals = <<>>
    /\ err = ""
    /\ tb = NoTB
    /\ drawn = <<>>
    /\ clock = 0
    /\ probe = NoProbe

NextAttr == Construct

SpecAttr == InitAttr /\ [][NextAttr]_vars

\* the value of the named attribute of the page when the page has it, ''
\* when it does not
AttributeOf(diagram, sAttrib) ==
    IF sAttrib \in DOMAIN diagram.attrs THEN diagram.attrs[sAttrib] ELSE <<>>

\* the report label with %M and %LM replaced by the attributes of the page
WithAttributes(format, diagram) ==
    Replace(Replace(format, <<"%", "M">>, AttributeOf(diagram, "machine")),
            <<"%", "L", "M">>, AttributeOf(diagram, "locmach"))

\* C21: _getDiagramAttribute returns the value of the named attribute of the
\* diagram when the diagram has it and '' when it does not; consequently a
\* '%M' or '%LM' tag in the xref format is replaced by the diagram's 'machine'
\* or 'locmach' attribute value whenever the diagram defines it.
C21_AttributeInXRef ==
    pc = "open" =>
        /\ \A a \in {"machine", "locmach"} :
               GetDiagramAttribute(qet.diagrams[1], a)
                   = AttributeOf(qet.diagrams[1], a)
        /\ \A i \in 1..Len(terminals) :
               terminals[i].terminal_xref =
                   GetXRef([qet EXCEPT !.format =
                                WithAttributes(qet.format, qet.diagrams[1])],
                           qet.diagrams[1], SourceOf(terminals[i]))

-----------------------------------------------------------------------------
(* Terminals with little or no metadata                                     *)

\* the most terminal elements of a page whose metadata is sparse
MaxSparse == 2

SparseLabels ==
    { <<"X", "1", ":", "2">>, <<"X", "1", ":", "1", "0">>,
      <<"X", "2", ":", "1">> }

\* the 'function' entry of an element: absent, empty, a text without tags,
\* an empty %t, a %p alone, and hose, conductor and bridge without %t and %p
SparseFunctions ==
    { <<>>,
      << <<>> >>,
      << <<"x">> >>,
      << <<"%", "t", "%">> >>,
      << <<"%", "p", "3", "%">> >>,
      << <<"%", "h", "H", "%", "n", "b", "n", "%", "b", "T", "%">> >> }

InitSparse ==
    /\ pc = "file"
    /\ \E n \in 0..MaxSparse :
       \E labels \in [1..n -> SparseLabels], funcs \in [1..n -> SparseFunctions] :
           disk = [format |-> <<"%", "f", "-", "%", "l", "%", "c">>,
                   offset |-> <<>>,
                   diagrams |->
                       << Page(1, [k \in 1..n |->
                                       El(k, labels[k], TypeA, funcs[k])],
                               <<>>) >>,
                   collection |-> ExtractCollection,
                   prefixes |-> <<>>, xmlns |-> {}, tags |-> {}]
    /\ qet = NoProject
    /\ terminals = <<>>
    /\ err = ""
    /\ tb = NoTB
    /\ drawn = <<>>
    /\ clock = 0
    /\ probe = NoProbe

NextSparse == Construct

SpecSparse == InitSparse /\ [][NextSparse]_vars

\* the 'function' text of an element has no tag %c
TagAbsent(e, c) ==
    e.func = <<>> \/ e.func = << <<>> >> \/ ~Contains(e.func[1], <<"%", c>>)

\* the 'function' text of an element has the tag %t with nothing behind it
TypeEmpty(e) ==
    /\ ~TagAbsent(e, "t")
    /\ LET meta == e.func[1]
           i == Min({k \in 1..(Len(meta) - 1) :
                        meta[k] = "%" /\ meta[k + 1] = "t"})
       IN  i + 2 > Len(meta) \/ meta[i + 2] = "%"

\* C22: extraction fills defaults for absent metadata and never fails on it:
\* for a valid terminal whose 'function' information is absent, empty, or
\* lacks a tag, the record gets terminal_type 'STANDARD' (when %t is absent or
\* empty), terminal_pos taken from the terminal name (when %p is absent), hose,
\* conductor and bridge '' (when %h, %n, %b are absent), num_reserve 0 and
\* size 30.  A position taken from the name shows in the order of the records
\* of a block.
C22_DefaultsNeverFail ==
    pc # "file" =>
        /\ pc = "open"
        /\ err = ""
        /\ Len(terminals) = Len(qet.diagrams[1].elements)
        /\ \A i \in 1..Len(terminals) :
               LET e == SourceOf(terminals[i])
               IN  /\ TagAbsent(e, "t") \/ TypeEmpty(e) =>
                          terminals[i].terminal_type = STANDARD
                   /\ TagAbsent(e, "h") => terminals[i].hose = <<>>
                   /\ TagAbsent(e, "n") => terminals[i].conductor = <<>>
                   /\ TagAbsent(e, "b") => terminals[i].bridge = PyStr(<<>>)
                   /\ TagAbsent(e, "r") => terminals[i].num_reserve = PyInt(0)
                   /\ TagAbsent(e, "s") => terminals[i].size = PyInt(30)
        /\ \A i \in 1..Len(terminals) : \A j \in (i + 1)..Len(terminals) :
               /\ terminals[i].block_name = terminals[j].block_name
               /\ TagAbsent(SourceOf(terminals[i]), "p")
               /\ TagAbsent(SourceOf(terminals[j]), "p")
               => ~StrLess(terminals[j].terminal_name,
                           terminals[i].terminal_name)

-----------------------------------------------------------------------------
(* The cable of a terminal                                                  *)

\* the most conductors of a page
MaxCables == 2

\* the ids of the connection points of a terminal element: none, one, two
\* and three points
PointChoices == { <<>>, <<1>>, <<1, 2>>, <<3, 2>>, <<1, 2, 3>> }

\* a conductor from or to a connection point of the element, or between
\* points of other elements (id 9)
CableChoices ==
    [terminal1 : {1, 2, 9}, terminal2 : {2, 9}, num : {<<"7">>, <<"8">>}]

InitCable ==
    /\ pc = "file"
    /\ \E tids \in PointChoices,
          conductors \in SeqsUpTo(CableChoices, MaxCables) :
           disk = [format |-> <<"%", "f", "-", "%", "l", "%", "c">>,
                   offset |-> <<>>,
                   diagrams |->
                       << Page(1, << [El(1, <<"X", "1", ":", "1">>, TypeA,
                                         <<>>) EXCEPT !.tids = tids] >>,
                               conductors) >>,
                   collection |-> ExtractCollection,
                   prefixes |-> <<>>, xmlns |-> {}, tags |-> {}]
    /\ qet = NoProject
    /\ terminals = <<>>
    /\ err = ""
    /\ tb = NoTB
    /\ drawn = <<>>
    /\ clock = 0
    /\ probe = NoProbe

NextCable == Construct

SpecCable == InitCable /\ [][NextCable]_vars

\* the numbers of the conductors of the page connected to a connection point
NumsAt(diagram, id) ==
    {diagram.conductors[k].num :
        k \in {j \in 1..Len(diagram.conductors) :
                  id \in {diagram.conductors[j].terminal1,
                          diagram.conductors[j].terminal2}}}

\* the numbers a record may carry as cable: those at the first connection
\* point, those at the second when there is none at the first, else ''
CablesOf(diagram, e) ==
    LET first == IF Len(e.tids) >= 1 THEN NumsAt(diagram, e.tids[1]) ELSE {}
        second == IF Len(e.tids) >= 2 THEN NumsAt(diagram, e.tids[2]) ELSE {}
    IN  IF first # {} THEN first
        ELSE IF second # {} THEN second
        ELSE {<<>>}

\* C23: the `cable` of a record is the number of the conductor connected to
\* the element's first connection point on the same page; when no conductor is
\* connected to the first point it is the number of the conductor connected to
\* the second point; it is '' when neither point has a conductor, and
\* extraction succeeds for every valid terminal element regardless of how many
\* connection points it has.
C23_CableOfFirstOrSecondPoint ==
    pc # "file" =>
        /\ pc = "open"
        /\ err = ""
        /\ Len(terminals) = 1
        /\ \A i \in 1..Len(terminals) :
               terminals[i].cable
                   \in CablesOf(qet.diagrams[1], SourceOf(terminals[i]))

-----------------------------------------------------------------------------
(* The pipeline: parse, render every block, insert_tb, save                 *)

\* how often the pipeline is run on one file
MaxRuns == 2

\* the tags a changed logo brings into the file: none, ns0, dc, both
LogoTags ==
    { <<>>, <<ns0>>, << <<"d", "c">> >>, <<ns0, <<"d", "c">> >> }

\* one terminal of block X1, alone or with one of block X2
PipelineElements ==
    { << El(1, <<"X", "1", ":", "1">>, TypeA, <<>>) >>,
      << El(1, <<"X", "1", ":", "1">>, TypeA, <<>>),
         El(2, <<"X", "2", ":", "1">>, TypeA, << <<"%", "h", "H", "%">> >>) >> }

InitPipeline ==
    /\ pc = "file"
    /\ \E words \in LogoTags, elements \in PipelineElements,
          old \in {<<>>, <<OldTb>>} :
           disk = [format |-> <<"%", "f", "-", "%", "l", "%", "c">>,
                   offset |-> <<>>,
                   diagrams |-> << Page(1, elements, <<>>) >>,
                   collection |-> old \o ExtractCollection,
                   prefixes |-> words, xmlns |-> {},
                   tags |-> 1..Len(words)]
    /\ qet = NoProject
    /\ terminals = <<>>
    /\ err = ""
    /\ tb = NoTB
    /\ drawn = <<>>
    /\ clock = 0
    /\ probe = NoProbe

\* the value the loops of lines 137 and 144 end with
NextTenth(n) == n + ((10 - (n % 10)) % 10)

\* the link_type of a tree as the str the collection holds
LinkTypeOf(tree) ==
    IF tree.link_type = "simple" THEN <<"s", "i", "m", "p", "l", "e">>
    ELSE TERMINAL

\* TerminalBlock(name, terminals of the block, settings).drawTerminalBlock()
\* as the node of the collection it becomes
DrawnNode(name, clk) ==
    LET self == NewTB(name, OfBlock(terminals, name), FormSettings)
        tree == ElementTree(self, NextTenth(TotalWidth(self)),
                            NextTenth(TotalHeight(self)), clk)
    IN  [kind |-> "element", name |-> tree.name,
         link_type |-> <<LinkTypeOf(tree)>>, sub |-> <<>>, id |-> tree.uuid]

\* one block of the project is rendered and handed to insert_tb(name, tb_node).
\* probe counts the runs of the pipeline, lists the blocks of this run and
\* keeps what the first parse gave.
RenderAndInsert ==
    /\ pc \in {"open", "reopened", "inserted"}
    /\ LET runs == IF probe.op = "pipeline" THEN probe.runs ELSE 0
           done == IF pc = "inserted" THEN probe.done ELSE {}
           first == IF probe.op = "pipeline" THEN probe.first ELSE terminals
           types == IF probe.op = "pipeline" THEN probe.types
                    ELSE GetListOfElementsByType(qet, TERMINAL)
       IN  /\ pc # "inserted" => runs < MaxRuns
           /\ \E name \in {terminals[i].block_name : i \in 1..Len(terminals)}
                              \ done :
              LET self == NewTB(name, OfBlock(terminals, name), FormSettings)
                  loop == RemoveOld(qet.collection, 1, TbElementName(name))
              IN  /\ probe' = [op |-> "pipeline",
                               runs |-> IF pc = "inserted" THEN runs
                                        ELSE runs + 1,
                               done |-> done \cup {name},
                               first |-> first, types |-> types]
                  /\ clock' = clock + 2 + Labels(Description(self, clock + 2))
                  /\ IF loop.raised
                     THEN /\ qet' = [qet EXCEPT !.collection = loop.children]
                          /\ err' = "ValueError"
                          /\ pc' = "failed"
                     ELSE /\ qet' = [qet EXCEPT !.collection =
                                        << DrawnNode(name, clock) >>
                                            \o loop.children]
                          /\ err' = ""
                          /\ pc' = "inserted"
    /\ UNCHANGED <<disk, terminals, tb, drawn>>

NextPipeline ==
    \/ Construct
    \/ RenderAndInsert
    \/ SaveTb

SpecPipeline == InitPipeline /\ [][NextPipeline]_vars

\* uuid, block name and terminal name of the records of a table
RecordKeys(table) ==
    [i \in 1..Len(table) |->
        <<table[i].uuid, table[i].block_name, table[i].terminal_name>>]

\* C24: generated blocks never feed back into extraction: after any number of
\* runs of the pipeline parse, render every block, insert_tb, save on the same
\* file, parsing the saved file yields the same terminal records (same uuids,
\* block names, terminal names) as the first parse, because inserted
\* 'TB_*.elmt' elements are never recognised as terminals or as terminal-type
\* collection elements.
C24_SameRecordsAfterRuns ==
    probe.op = "pipeline" /\ pc \in {"reopened", "failed"} =>
        /\ pc = "reopened"
        /\ RecordKeys(terminals) = RecordKeys(probe.first)
        /\ GetListOfElementsByType(qet, TERMINAL) = probe.types

====
